---- MODULE Spec2Model ----
(***************************************************************************)
(* The text-similarity utility of app/utils/text_similarity.py as a state  *)
(* machine: the public entry point calculate_similarity with its helpers   *)
(* (preprocess_text, tokenize_text, the three measures) and the ranking    *)
(* function find_similar_texts.                                            *)
(*                                                                         *)
(* Python floats are IEEE-754 binary64 numbers.  The scores of this        *)
(* component sit within one unit in the last place of 1.0 and are compared *)
(* with ==, >= and sort(), so the arithmetic is modelled bit for bit:      *)
(* a float is a pair <<mantissa, exponent>> with a 53-bit mantissa held as *)
(* a little-endian digit sequence, and every operation rounds to nearest,  *)
(* ties to even.                                                           *)
(***************************************************************************)
EXTENDS Integers, Sequences, FiniteSets, TLC

\* ------------------------------------------------------------------------
\* Natural numbers of any size (TLC's integers are 32 bits wide):
\* little-endian digits in base Radix, no leading zero digit, zero is <<>>.
\* ------------------------------------------------------------------------
DigitBits == 14
Radix == 2^DigitBits

RECURSIVE Trim(_)
Trim(x) ==
    IF x = <<>> THEN x
    ELSE IF x[Len(x)] = 0 THEN Trim(SubSeq(x, 1, Len(x) - 1)) ELSE x

RECURSIVE Big(_)
Big(n) == IF n = 0 THEN <<>> ELSE <<n % Radix>> \o Big(n \div Radix)

Digit(x, i) == IF i <= Len(x) THEN x[i] ELSE 0

RECURSIVE AddFrom(_, _, _, _)
AddFrom(x, y, i, c) ==
    IF i > Len(x) /\ i > Len(y)
    THEN (IF c = 0 THEN <<>> ELSE <<c>>)
    ELSE LET s == Digit(x, i) + Digit(y, i) + c
         IN  <<s % Radix>> \o AddFrom(x, y, i + 1, s \div Radix)

BigAdd(x, y) == AddFrom(x, y, 1, 0)

RECURSIVE SubFrom(_, _, _, _)
SubFrom(x, y, i, b) ==
    IF i > Len(x) THEN <<>>
    ELSE LET d == Digit(x, i) - Digit(y, i) - b
         IN  IF d < 0 THEN <<d + Radix>> \o SubFrom(x, y, i + 1, 1)
                      ELSE <<d>> \o SubFrom(x, y, i + 1, 0)

\* x - y for x >= y
BigSub(x, y) == Trim(SubFrom(x, y, 1, 0))

RECURSIVE CmpFrom(_, _, _)
CmpFrom(x, y, i) ==
    IF i = 0 THEN 0
    ELSE IF x[i] > y[i] THEN 1
    ELSE IF x[i] < y[i] THEN -1
    ELSE CmpFrom(x, y, i - 1)

\* -1, 0 or 1 as x <, = or > y
BigCmp(x, y) ==
    IF Len(x) > Len(y) THEN 1
    ELSE IF Len(x) < Len(y) THEN -1
    ELSE CmpFrom(x, y, Len(x))

RECURSIVE MulFrom(_, _, _, _)
MulFrom(x, k, i, c) ==
    IF i > Len(x) THEN Big(c)
    ELSE LET p == x[i] * k + c
         IN  <<p % Radix>> \o MulFrom(x, k, i + 1, p \div Radix)

\* x * k for 0 <= k < Radix
BigMulSmall(x, k) == Trim(MulFrom(x, k, 1, 0))

ShiftDigits(x, n) == IF x = <<>> THEN x ELSE [i \in 1..n |-> 0] \o x

RECURSIVE MulAcc(_, _, _)
MulAcc(x, y, i) ==
    IF i > Len(y) THEN <<>>
    ELSE BigAdd(ShiftDigits(BigMulSmall(x, y[i]), i - 1), MulAcc(x, y, i + 1))

BigMul(x, y) == MulAcc(x, y, 1)

\* the digits of floor(x / k) from the top one down, by short division
RECURSIVE DivFrom(_, _, _, _)
DivFrom(x, k, i, r) ==
    IF i = 0 THEN <<>>
    ELSE LET cur == r * Radix + x[i]
         IN  <<cur \div k>> \o DivFrom(x, k, i - 1, cur % k)

Reversed(x) == [i \in 1..Len(x) |-> x[Len(x) + 1 - i]]

\* floor(x / k) for 0 < k <= Radix
BigDivSmall(x, k) == Trim(Reversed(DivFrom(x, k, Len(x), 0)))

RECURSIVE SmallBitLen(_)
SmallBitLen(d) == IF d = 0 THEN 0 ELSE 1 + SmallBitLen(d \div 2)

BitLen(x) ==
    IF x = <<>> THEN 0 ELSE (Len(x) - 1) * DigitBits + SmallBitLen(x[Len(x)])

\* x * 2^n
BigShl(x, n) == ShiftDigits(BigMulSmall(x, 2^(n % DigitBits)), n \div DigitBits)

\* floor(x / 2^n)
BigShr(x, n) ==
    IF n \div DigitBits >= Len(x) THEN <<>>
    ELSE BigDivSmall(SubSeq(x, n \div DigitBits + 1, Len(x)), 2^(n % DigitBits))

\* x mod 2^n
BigLowBits(x, n) ==
    LET full == n \div DigitBits
    IN  IF full >= Len(x) THEN x
        ELSE Trim(SubSeq(x, 1, full) \o <<x[full + 1] % 2^(n % DigitBits)>>)

BigOdd(x) == x # <<>> /\ x[1] % 2 = 1

\* One digit of a long division (Knuth's algorithm D): floor(r / d) for a
\* divisor d whose top digit is at least Radix / 2 and r < d * Radix.  The
\* estimate from the top digits is at most 2 too large.
Estimate(d, top) ==
    IF top \div d[Len(d)] > Radix - 1 THEN Radix - 1 ELSE top \div d[Len(d)]

Corrected(r, d, qhat) ==
    IF BigCmp(BigMulSmall(d, qhat), r) <= 0 THEN qhat
    ELSE IF BigCmp(BigMulSmall(d, qhat - 1), r) <= 0 THEN qhat - 1
    ELSE qhat - 2

QuotientDigit(r, d) ==
    Corrected(r, d, Estimate(d, Digit(r, Len(d) + 1) * Radix + Digit(r, Len(d))))

\* one step of the long division: the next digit of n is brought down to the
\* remainder r, and the quotient digit qd of the new remainder r2 is put in
\* front of the quotient q
RECURSIVE DivStep(_, _, _, _, _)
DivDigit(n, d, i, q, r2, qd) ==
    DivStep(n, d, i - 1, <<qd>> \o q, BigSub(r2, BigMulSmall(d, qd)))

\* a remainder below the divisor gives the digit 0
BringDown(n, d, i, q, r2) ==
    IF BigCmp(r2, d) < 0 THEN DivStep(n, d, i - 1, <<0>> \o q, r2)
    ELSE DivDigit(n, d, i, q, r2, QuotientDigit(r2, d))

DivStep(n, d, i, q, r) ==
    IF i = 0 THEN <<Trim(q), r>>
    ELSE BringDown(n, d, i, q, Trim(<<n[i]>> \o r))

LongDivision(nn, dd) == DivStep(nn, dd, Len(nn), <<>>, <<>>)

\* the division of n and d both shifted left by s bits: the quotient is the
\* same, the remainder comes out shifted
Normalized(qr, s) == <<qr[1], BigShr(qr[2], s)>>

ShiftedDivMod(n, d, s) == Normalized(LongDivision(BigShl(n, s), BigShl(d, s)), s)

\* <<floor(n / d), n mod d>> for d # 0, by long division in base Radix
BigDivMod(n, d) == ShiftedDivMod(n, d, DigitBits - SmallBitLen(d[Len(d)]))

RECURSIVE NewtonStep(_, _)
Improved(n, x, y) == IF BigCmp(y, x) >= 0 THEN x ELSE NewtonStep(n, y)

NewtonStep(n, x) == Improved(n, x, BigDivSmall(BigAdd(x, BigDivMod(n, x)[1]), 2))

\* floor(sqrt(n)) for n # 0, by Newton's iteration from a power of two above it
BigSqrt(n) == NewtonStep(n, BigShl(<<1>>, (BitLen(n) + 1) \div 2))

\* ------------------------------------------------------------------------
\* binary64: a non-negative float is <<m, e>> of value m * 2^e with
\* BitLen(m) = MantBits, or FZero.  The representation is canonical, so two
\* floats are == exactly when the tuples are equal.
\* ------------------------------------------------------------------------
MantBits == 53

FZero == <<<<>>, 0>>

\* n * 2^e, with `sticky` telling that bits below n were dropped, rounded to
\* nearest, ties to even
\* the mantissa q2 after rounding: one bit too long when the rounding
\* carried out of the top bit
Carried(q2, e) ==
    IF BitLen(q2) > MantBits THEN <<BigShr(q2, 1), e + 1>> ELSE <<q2, e>>

\* the quotient q rounded up or not; c compares the dropped bits with half
\* a unit of q
RoundedUp(q, c, sticky) ==
    IF c > 0 \/ (c = 0 /\ (sticky \/ BigOdd(q))) THEN BigAdd(q, <<1>>) ELSE q

\* sh bits of n are dropped (or -sh zero bits appended)
Shifted(n, e, sticky, sh) ==
    IF sh <= 0 THEN <<BigShl(n, -sh), e + sh>>
    ELSE Carried(RoundedUp(BigShr(n, sh),
                           BigCmp(BigLowBits(n, sh), BigShl(<<1>>, sh - 1)),
                           sticky),
                 e + sh)

Round(n, e, sticky) ==
    IF n = <<>> THEN FZero ELSE Shifted(n, e, sticky, BitLen(n) - MantBits)

FromInt(n) == Round(Big(n), 0, FALSE)

FMul(a, b) ==
    IF a = FZero \/ b = FZero THEN FZero
    ELSE Round(BigMul(a[1], b[1]), a[2] + b[2], FALSE)

\* the sum of two mantissas aligned at the exponent e
Aligned(a, b, e) ==
    Round(BigAdd(BigShl(a[1], a[2] - e), BigShl(b[1], b[2] - e)), e, FALSE)

FAdd(a, b) ==
    IF a = FZero THEN b
    ELSE IF b = FZero THEN a
    ELSE Aligned(a, b, IF a[2] < b[2] THEN a[2] ELSE b[2])

\* the quotient and remainder qr rounded: a remainder is a dropped bit
RoundedQuotient(qr, e) == Round(qr[1], e, qr[2] # <<>>)

\* a / b for b # 0, from the quotient of the mantissas with three guard bits
FDiv(a, b) ==
    IF a = FZero THEN FZero
    ELSE RoundedQuotient(BigDivMod(BigShl(a[1], MantBits + 3), b[1]),
                         a[2] - b[2] - (MantBits + 3))

\* the integer root rt of n rounded: inexact when rt * rt is not n
RoundedRoot(n, rt, e) == Round(rt, e, BigMul(rt, rt) # n)

RootOf(n, e) == RoundedRoot(n, BigSqrt(n), e)

\* the mantissa shifted left by s bits, s making the exponent even
Scaled(a, s) == RootOf(BigShl(a[1], s), (a[2] - s) \div 2)

FSqrt(a) ==
    IF a = FZero THEN FZero
    ELSE Scaled(a, IF (a[2] - MantBits) % 2 = 0 THEN MantBits + 2 ELSE MantBits + 3)

\* -1, 0 or 1 as a <, = or > b
FCmp(a, b) ==
    IF a = b THEN 0
    ELSE IF a = FZero THEN -1
    ELSE IF b = FZero THEN 1
    ELSE IF a[2] # b[2] THEN (IF a[2] < b[2] THEN -1 ELSE 1)
    ELSE BigCmp(a[1], b[1])

FGe(a, b) == FCmp(a, b) >= 0
FLe(a, b) == FCmp(a, b) <= 0

\* a decimal literal num/den (0.3 is Decimal(3, 10)): the nearest float
Decimal(num, den) == FDiv(FromInt(num), FromInt(den))

F0 == FZero
F1 == FromInt(1)

\* ------------------------------------------------------------------------
\* Python values.  A str is its sequence of characters; the other kinds are
\* the values a caller can pass where a str is expected: None, an int (s
\* holds the number) and a list of one-character strings.
\* ------------------------------------------------------------------------
PyStr(s)  == [kind |-> "str", s |-> s]
PyList(s) == [kind |-> "list", s |-> s]
PyInt(n)  == [kind |-> "int", s |-> <<n>>]
PyNone    == [kind |-> "NoneType", s |-> <<>>]

\* `not v`
Falsy(v) ==
    CASE v.kind = "NoneType" -> TRUE
      [] v.kind = "int"      -> v.s[1] = 0
      [] OTHER               -> v.s = <<>>

\* the outcome of a call: a returned value, or an exception leaving it
Ok(v)  == [exc |-> FALSE, val |-> v]
Raised == [exc |-> TRUE, val |-> <<>>]

\* ------------------------------------------------------------------------
\* Characters.  The alphabet of the model: ASCII letters, digits, the space
\* and punctuation.  (CJK ideographs are left out: how jieba segments a run
\* of them is decided by its dictionary, which is not part of this code.)
\* ------------------------------------------------------------------------
UpperCase == <<"A", "B", "N">>
LowerCase == <<"a", "b", "n">>
LowerLetters == {"a", "b", "c", "d", "e", "f", "g", "h", "i", "j", "k", "l", "m",
                 "n", "o", "p", "q", "r", "s", "t", "u", "v", "w", "x", "y", "z"}
DigitChars == {"0", "1", "2", "3", "4", "5", "6", "7", "8", "9"}

ToSet(seq) == {seq[i] : i \in 1..Len(seq)}

\* str.lower() on one character
LowerChar(c) ==
    IF c \in ToSet(UpperCase)
    THEN LowerCase[CHOOSE i \in 1..Len(UpperCase) : UpperCase[i] = c]
    ELSE c

IsSpace(c) == c = " "

\* [\u4e00-\u9fa5a-zA-Z0-9], on the alphabet
IsWordChar(c) == c \in LowerLetters \cup ToSet(UpperCase) \cup DigitChars

\* re.sub(r'[^\u4e00-\u9fa5a-zA-Z0-9\s]', ' ', text)
SubSpecial(s) == [i \in 1..Len(s) |-> IF IsWordChar(s[i]) \/ IsSpace(s[i]) THEN s[i] ELSE " "]

\* re.sub(r'\s+', ' ', text)
RECURSIVE SubSpaces(_)
SubSpaces(s) ==
    IF s = <<>> THEN s
    ELSE IF IsSpace(s[1])
    THEN IF Len(s) > 1 /\ IsSpace(s[2]) THEN SubSpaces(Tail(s))
                                        ELSE <<" ">> \o SubSpaces(Tail(s))
    ELSE <<s[1]>> \o SubSpaces(Tail(s))

\* str.strip()
RECURSIVE Strip(_)
Strip(s) ==
    IF s = <<>> THEN s
    ELSE IF IsSpace(s[1]) THEN Strip(Tail(s))
    ELSE IF IsSpace(s[Len(s)]) THEN Strip(SubSeq(s, 1, Len(s) - 1))
    ELSE s

Max(S) == CHOOSE x \in S : \A y \in S : y <= x
Min(S) == CHOOSE x \in S : \A y \in S : x <= y

\* The maximal runs of a kind of character in a string, w[i] telling
\* whether the i-th character is of the kind: where the runs start, and
\* where the run that starts at i ends
RunStarts(w) == {i \in 1..Len(w) : w[i] /\ (i = 1 \/ ~w[i - 1])}

RunEnd(w, i) == Min({e \in i..Len(w) : e = Len(w) \/ ~w[e + 1]})

\* the pieces of s that start at the places in `starts`, from left to
\* right: a whole run, or one character outside the runs
RECURSIVE PiecesFrom(_, _, _)
PieceAt(s, w, starts, i) ==
    <<(IF w[i] THEN SubSeq(s, i, RunEnd(w, i)) ELSE <<s[i]>>)>> \o PiecesFrom(s, w, starts \ {i})

PiecesFrom(s, w, starts) ==
    IF starts = {} THEN <<>> ELSE PieceAt(s, w, starts, Min(starts))

\* str.split(): the maximal runs of non-space characters
NonSpace(s) == [i \in 1..Len(s) |-> ~IsSpace(s[i])]

SplitRuns(s, w) == PiecesFrom(s, w, RunStarts(w))

Split(s) == SplitRuns(s, NonSpace(s))

\* preprocess_text: a value without lower() comes back as it was given
preprocess_text(text) ==
    IF text.kind = "str"
    THEN PyStr(Strip(SubSpaces(SubSpecial([i \in 1..Len(text.s) |-> LowerChar(text.s[i])]))))
    ELSE text

\* jieba.cut on a str of the alphabet: every maximal run of letters and
\* digits is one token, every other character (a space, a punctuation
\* mark) is a token of its own.
WordChars(s) == [i \in 1..Len(s) |-> IsWordChar(s[i])]

CutRuns(s, w) == PiecesFrom(s, w, RunStarts(w) \cup {i \in 1..Len(s) : ~w[i]})

jieba_cut(s) == CutRuns(s, WordChars(s))

VARIABLES
    text1,        \* first argument of calculate_similarity
    text2,        \* second argument
    jiebaFails,   \* the segmenter raises on every call (it cannot load its dictionary)
    step,         \* how many calls of the plan were made
    scores,       \* scores[m]: what calculate_similarity(text1, text2, m) did
    swapped,      \* swapped[m]: what calculate_similarity(text2, text1, m) did
    target_text,  \* the arguments of find_similar_texts
    text_list,
    threshold,
    max_results,
    returned,     \* find_similar_texts has returned
    found,        \* the list it returned
    texts,        \* the arguments of text_clustering
    similarity_threshold,
    clustered,    \* text_clustering has returned
    clusters,     \* the clusters it returned
    keyword_text, \* the arguments of extract_keywords
    top_k,
    extracted,    \* extract_keywords has returned
    keywords,     \* the list it returned
    call,         \* a call of one of the list functions on values of any kind
    answered,     \* the call has ended
    outcome,      \* how: a returned value or a propagated exception
    shared_texts, \* the list object passed to the calls of every thread
    threads,      \* per thread: the function it runs and the locals of the call
    locals,       \* the `processed` sets of the running text_clustering calls
    bug_rows,     \* the rows of the bugs table
    bug,          \* the arguments of _find_similar_bugs_internal
    bug_threshold,
    bug_max_results,
    listed,       \* _find_similar_bugs_internal has returned
    similar_bugs, \* the list it returned
    ai_tasks,     \* the rows of the ai_tasks table
    task          \* the run of ai_find_similar_bugs: arguments, position, outcome

search == <<target_text, text_list, threshold, max_results, returned, found>>

clustering == <<texts, similarity_threshold, clustered, clusters>>

extraction == <<keyword_text, top_k, extracted, keywords>>

degraded == <<call, answered, outcome>>

concurrent == <<shared_texts, threads, locals>>

service == <<bug_rows, bug, bug_threshold, bug_max_results, listed, similar_bugs>>

tasking == <<ai_tasks, task>>

\* tokenize_text: segment and drop the tokens of one character; when the
\* segmenter raises, the handler's text.split() is the result, and raises
\* itself when text has no split()
HasLen2(token) == Len(Strip(token)) > 1

StripAll(tokens) == [i \in 1..Len(tokens) |-> Strip(tokens[i])]

tokenize_text(text) ==
    IF text.kind # "str" THEN Raised
    ELSE IF jiebaFails THEN Ok(Split(text.s))
    ELSE Ok(StripAll(SelectSeq(jieba_cut(text.s), HasLen2)))

\* ------------------------------------------------------------------------
\* The three measures.  Each has its own try/except returning 0.0.
\* ------------------------------------------------------------------------
\* (OverFirst: the intersection over the first token set instead of the
\* union)
OverFirst(tokens1, tokens2) ==
    FDiv(FromInt(Cardinality(tokens1 \cap tokens2)), FromInt(Cardinality(tokens1)))

\* len(intersection) / len(union)
OverUnion(tokens1, tokens2) ==
    FDiv(FromInt(Cardinality(tokens1 \cap tokens2)), FromInt(Cardinality(tokens1 \cup tokens2)))

\* the body of jaccard_similarity on the two token sets
\* (EmptyScoresZero: without the test for two empty sets)
EmptyScoresZero(tokens1, tokens2) ==
    IF tokens1 = {} \/ tokens2 = {} THEN F0
    ELSE OverUnion(tokens1, tokens2)

JaccardOfSets(tokens1, tokens2) ==
    IF tokens1 = {} /\ tokens2 = {} THEN F1
    ELSE IF tokens1 = {} \/ tokens2 = {} THEN F0
    ELSE OverUnion(tokens1, tokens2)

\* k1, k2: what tokenize_text did on the two texts
JaccardOfTokens(k1, k2) ==
    IF k1.exc \/ k2.exc THEN F0 ELSE JaccardOfSets(ToSet(k1.val), ToSet(k2.val))

jaccard_similarity(t1, t2) == JaccardOfTokens(tokenize_text(t1), tokenize_text(t2))

\* list.count
Count(seq, x) == Cardinality({i \in 1..Len(seq) : seq[i] = x})

\* sum(f(x) for x in S): the terms are ints, so the order Python walks the
\* set in does not change the sum
RECURSIVE SumOver(_, _)
SumOver(S, f) ==
    IF S = {} THEN 0
    ELSE LET x == CHOOSE y \in S : TRUE IN f[x] + SumOver(S \ {x}, f)

\* x ** 0.5.  (The C library's pow is the correctly rounded square root for
\* every int below 2921, which no sum of squares of the model reaches.)
\* The roots of the small ints are computed once.
SmallRoots == [n \in 0..64 |-> FSqrt(FromInt(n))]

RootFrom(roots, n) == IF n \in DOMAIN roots THEN roots[n] ELSE FSqrt(FromInt(n))

PowHalf(n) == RootFrom(SmallRoots, n)

\* (Presence: whether the token occurs, not how often)
Presence(all_tokens, tokens) ==
    [t \in all_tokens |-> IF Count(tokens, t) > 0 THEN 1 ELSE 0]

\* [tokens.count(token) for token in all_tokens], as a function of the token
Vector(all_tokens, tokens) == [t \in all_tokens |-> Count(tokens, t)]

\* sum(a * b for a, b in zip(v, w))
Dot(all_tokens, v, w) == SumOver(all_tokens, [t \in all_tokens |-> v[t] * w[t]])

\* dot_product / (magnitude1 * magnitude2), or 0.0 for a zero magnitude
CosineOf(dot_product, magnitude1, magnitude2) ==
    IF magnitude1 = F0 \/ magnitude2 = F0 THEN F0
    ELSE FDiv(FromInt(dot_product), FMul(magnitude1, magnitude2))

CosineOfVectors(all_tokens, vector1, vector2) ==
    CosineOf(Dot(all_tokens, vector1, vector2),
             PowHalf(Dot(all_tokens, vector1, vector1)),
             PowHalf(Dot(all_tokens, vector2, vector2)))

CosineOfAll(all_tokens, tokens1, tokens2) ==
    CosineOfVectors(all_tokens, Vector(all_tokens, tokens1), Vector(all_tokens, tokens2))

\* the body of cosine_similarity on the two token lists
CosineOfLists(tokens1, tokens2) ==
    IF tokens1 = <<>> /\ tokens2 = <<>> THEN F1
    ELSE IF tokens1 = <<>> \/ tokens2 = <<>> THEN F0
    ELSE CosineOfAll(ToSet(tokens1 \o tokens2), tokens1, tokens2)

\* k1, k2: what tokenize_text did on the two texts
CosineOfTokens(k1, k2) ==
    IF k1.exc \/ k2.exc THEN F0 ELSE CosineOfLists(k1.val, k2.val)

cosine_similarity(t1, t2) == CosineOfTokens(tokenize_text(t1), tokenize_text(t2))

\* difflib.SequenceMatcher(None, a, b).  Indices are 0-based and ranges
\* half-open as in difflib; a[i] of Python is a[i + 1] here.

\* __chain_b with autojunk left at its default True: when b has 200 or more
\* elements, those occurring more than len(b) // 100 + 1 times are popular
\* and are taken out of b2j, the index a match is searched through
AutojunkLen == 200

PopularIn(b, ntest) == {c \in ToSet(b) : Count(b, c) > ntest}

Popular(b) == IF Len(b) >= AutojunkLen THEN PopularIn(b, Len(b) \div 100 + 1) ELSE {}

\* the length of the block of equal elements from a[i], b[j] on, none of
\* them popular
RECURSIVE RunLen(_, _, _, _, _, _, _)
RunLen(a, b, popular, i, j, ahi, bhi) ==
    IF i < ahi /\ j < bhi /\ a[i + 1] = b[j + 1] /\ b[j + 1] \notin popular
    THEN 1 + RunLen(a, b, popular, i + 1, j + 1, ahi, bhi)
    ELSE 0

\* `while besti > alo and bestj > blo and a[besti-1] == b[bestj-1]`: the
\* number of equal elements in front of a[i], b[j]
RECURSIVE Before(_, _, _, _, _, _)
Before(a, b, i, j, alo, blo) ==
    IF i > alo /\ j > blo /\ a[i] = b[j]
    THEN 1 + Before(a, b, i - 1, j - 1, alo, blo)
    ELSE 0

\* find_longest_match: <<i, j, k>>, the longest block a[i:i+k] == b[j:j+k]
\* within a[alo:ahi] and b[blo:bhi] that has no popular element; of the
\* longest, the one starting earliest in a, and of those the one starting
\* earliest in b; then the block is extended on both sides by the equal
\* elements next to it, popular or not
EarliestIn2(runs, best, besti) ==
    <<besti, Min({p[2] : p \in {q \in DOMAIN runs : runs[q] = best /\ q[1] = besti}}), best>>

EarliestIn1(runs, best) ==
    EarliestIn2(runs, best, Min({p[1] : p \in {q \in DOMAIN runs : runs[q] = best}}))

Longest(runs, alo, blo, best) ==
    IF best = 0 THEN <<alo, blo, 0>> ELSE EarliestIn1(runs, best)

LongestOf(runs, alo, blo) ==
    Longest(runs, alo, blo, Max({runs[p] : p \in DOMAIN runs} \cup {0}))

ExtendedBy(a, b, ahi, bhi, i, j, k, before) ==
    <<i - before, j - before, before + k + RunLen(a, b, {}, i + k, j + k, ahi, bhi)>>

Extended(a, b, alo, ahi, blo, bhi, m) ==
    ExtendedBy(a, b, ahi, bhi, m[1], m[2], m[3], Before(a, b, m[1], m[2], alo, blo))

find_longest_match(a, b, popular, alo, ahi, blo, bhi) ==
    Extended(a, b, alo, ahi, blo, bhi,
             LongestOf([p \in (alo..(ahi - 1)) \X (blo..(bhi - 1)) |->
                           RunLen(a, b, popular, p[1], p[2], ahi, bhi)], alo, blo))

\* get_matching_blocks: the longest match, then the same to its left and to
\* its right; the sum of the block sizes
RECURSIVE MatchedCount(_, _, _, _, _, _, _)
AroundMatch(a, b, popular, alo, ahi, blo, bhi, i, j, k) ==
    IF k = 0 THEN 0
    ELSE k + (IF alo < i /\ blo < j THEN MatchedCount(a, b, popular, alo, i, blo, j) ELSE 0)
           + (IF i + k < ahi /\ j + k < bhi
              THEN MatchedCount(a, b, popular, i + k, ahi, j + k, bhi) ELSE 0)

Around(a, b, popular, alo, ahi, blo, bhi, m) ==
    AroundMatch(a, b, popular, alo, ahi, blo, bhi, m[1], m[2], m[3])

MatchedCount(a, b, popular, alo, ahi, blo, bhi) ==
    Around(a, b, popular, alo, ahi, blo, bhi,
           find_longest_match(a, b, popular, alo, ahi, blo, bhi))

\* SequenceMatcher.ratio(): 2.0 * matches / length, or 1.0 when length is 0
ratio(a, b) ==
    IF Len(a) + Len(b) = 0 THEN F1
    ELSE FDiv(FMul(FromInt(2), FromInt(MatchedCount(a, b, Popular(b), 0, Len(a), 0, Len(b)))),
              FromInt(Len(a) + Len(b)))

levenshtein_similarity(t1, t2) ==
    IF Falsy(t1) /\ Falsy(t2) THEN F1
    ELSE IF Falsy(t1) \/ Falsy(t2) THEN F0
    ELSE IF t1.kind \in {"str", "list"} /\ t2.kind \in {"str", "list"}
    THEN ratio(t1.s, t2.s)
    ELSE F0

\* ------------------------------------------------------------------------
\* calculate_similarity
\* ------------------------------------------------------------------------
Methods == <<"jaccard", "cosine", "levenshtein", "combined">>

\* the weights of the combined score: 0.3 for the Jaccard and the sequence
\* ratio, 0.4 for the cosine (EqualWeight: the cosine weighted like the others)
W03 == Decimal(3, 10)
EqualWeight == Decimal(3, 10)
W04 == Decimal(4, 10)

\* the guard `not text1 or not text2`; with `and` in place of `or` it would
\* only catch two empty texts
BothEmpty(t1, t2) == Falsy(t1) /\ Falsy(t2)
EitherEmpty(t1, t2) == Falsy(t1) \/ Falsy(t2)

\* jaccard * 0.3 + cosine * 0.4 + levenshtein * 0.3
Combined(jaccard, cosine, levenshtein, w03, w04) ==
    FAdd(FAdd(FMul(jaccard, w03), FMul(cosine, w04)), FMul(levenshtein, w03))

\* the if/elif chain over method; jaccard, cosine and levenshtein are what
\* the three measures return on the cleaned texts (a branch evaluates only
\* those it names)
ByMethod(method, jaccard, cosine, levenshtein) ==
    CASE method = "jaccard"     -> Ok(jaccard)
      [] method = "cosine"      -> Ok(cosine)
      [] method = "levenshtein" -> Ok(levenshtein)
      [] method = "combined"    -> Ok(Combined(jaccard, cosine, levenshtein, W03, W04))
      [] OTHER                  -> Raised

Measured(text1_clean, text2_clean, method) ==
    ByMethod(method,
             jaccard_similarity(text1_clean, text2_clean),
             cosine_similarity(text1_clean, text2_clean),
             levenshtein_similarity(text1_clean, text2_clean))

\* the body of the try block
CalculateBody(t1, t2, method) ==
    IF EitherEmpty(t1, t2) THEN Ok(F0)
    ELSE Measured(preprocess_text(t1), preprocess_text(t2), method)

\* `except Exception: return 0.0`
Caught(r) == IF r.exc THEN Ok(F0) ELSE r

\* calculate_similarity: the try block and its except clause
\* (Uncaught: the function without the except clause)
Uncaught(t1, t2, method) == CalculateBody(t1, t2, method)

calculate_similarity(t1, t2, method) == Caught(CalculateBody(t1, t2, method))

\* ------------------------------------------------------------------------
\* find_similar_texts
\* ------------------------------------------------------------------------

\* the loop over enumerate(text_list): an entry for every text whose
\* combined similarity to the target is >= threshold, in list order
\* `if similarity >= threshold: similar_texts.append({...})`
\* (AppendIfAbove: the comparison written with > )
AppendIfAbove(index, text, similarity, thr) ==
    IF FCmp(similarity, thr) > 0
    THEN <<[index |-> index, text |-> text, similarity |-> similarity]>>
    ELSE <<>>

AppendIfSimilar(index, text, similarity, thr) ==
    IF FGe(similarity, thr)
    THEN <<[index |-> index, text |-> text, similarity |-> similarity]>>
    ELSE <<>>

RECURSIVE SimilarFrom(_, _, _, _)
SimilarFrom(target, list, thr, i) ==
    IF i > Len(list) THEN <<>>
    ELSE AppendIfSimilar(i - 1, list[i], calculate_similarity(target, list[i], "combined").val, thr)
             \o SimilarFrom(target, list, thr, i + 1)

\* list.sort(key=lambda x: x['similarity'], reverse=True): descending and
\* stable, entries of equal similarity keep their order
\* (InsertBeforeEqual: an entry put in front of the entries of equal
\* similarity, as an unstable sort may do)
RECURSIVE InsertBeforeEqual(_, _)
InsertBeforeEqual(sorted, e) ==
    IF sorted = <<>> THEN <<e>>
    ELSE IF FCmp(sorted[1].similarity, e.similarity) > 0
    THEN <<sorted[1]>> \o InsertBeforeEqual(Tail(sorted), e)
    ELSE <<e>> \o sorted

RECURSIVE InsertDescending(_, _)
InsertDescending(sorted, e) ==
    IF sorted = <<>> THEN <<e>>
    ELSE IF FGe(sorted[1].similarity, e.similarity)
    THEN <<sorted[1]>> \o InsertDescending(Tail(sorted), e)
    ELSE <<e>> \o sorted

RECURSIVE SortedDescending(_)
SortedDescending(seq) ==
    IF seq = <<>> THEN seq
    ELSE InsertDescending(SortedDescending(SubSeq(seq, 1, Len(seq) - 1)), seq[Len(seq)])

\* (Unsorted: the list left in the order the loop built it)
Unsorted(seq) == seq

sort_by_similarity(seq) == SortedDescending(seq)

\* (Unsliced: the whole list returned)
Unsliced(seq, n) == seq

\* seq[:n]: the first n entries, and for a negative n all but the last -n
slice_to(seq, n) ==
    IF n >= 0 THEN SubSeq(seq, 1, IF n < Len(seq) THEN n ELSE Len(seq))
    ELSE SubSeq(seq, 1, IF Len(seq) + n > 0 THEN Len(seq) + n ELSE 0)

find_similar_texts(target, list, thr, max) ==
    slice_to(sort_by_similarity(SimilarFrom(target, list, thr, 1)), max)

\* ------------------------------------------------------------------------
\* text_clustering
\* ------------------------------------------------------------------------

\* `if similarity >= similarity_threshold`
\* (JoinsBelow: the comparison turned round)
JoinsBelow(similarity, thr) == FLe(similarity, thr)

Joins(similarity, thr) == FGe(similarity, thr)

\* processed.add(j)
\* (NotMarked: the index is not recorded)
NotMarked(processed, j) == processed

MarkProcessed(processed, j) == processed \cup {j}

\* The locals of a call of text_clustering between two iterations: pc tells
\* which loop is about to test its next index (i of the outer loop, j of
\* the inner one), cluster is the cluster being filled and clusters the
\* list of the finished ones.  The set `processed` is kept beside the frame.
StartFrame == [pc |-> "outer", i |-> 0, j |-> 0, cluster |-> <<>>, clusters |-> <<>>]

\* one iteration of `for i, text1 in enumerate(texts)` up to the inner loop
OuterStep(list, f, processed) ==
    IF f.i >= Len(list) THEN <<[f EXCEPT !.pc = "done"], processed>>
    ELSE IF f.i \in processed THEN <<[f EXCEPT !.i = f.i + 1], processed>>
    ELSE <<[f EXCEPT !.pc = "inner", !.j = f.i + 1, !.cluster = <<f.i>>],
           MarkProcessed(processed, f.i)>>

\* text2 compared with the seed text1
\* (JoinedBehindSeed: a joining index put right behind the seed)
JoinedBehindSeed(f, processed, similarity, thr) ==
    IF Joins(similarity, thr)
    THEN <<[f EXCEPT !.j = f.j + 1, !.cluster = <<f.cluster[1], f.j>> \o Tail(f.cluster)],
           MarkProcessed(processed, f.j)>>
    ELSE <<[f EXCEPT !.j = f.j + 1], processed>>

Compared(f, processed, similarity, thr) ==
    IF Joins(similarity, thr)
    THEN <<[f EXCEPT !.j = f.j + 1, !.cluster = Append(f.cluster, f.j)],
           MarkProcessed(processed, f.j)>>
    ELSE <<[f EXCEPT !.j = f.j + 1], processed>>

\* one iteration of `for j, text2 in enumerate(texts[i+1:], i+1)`, and
\* clusters.append(cluster) at its end
InnerStep(list, thr, f, processed) ==
    IF f.j >= Len(list)
    THEN <<[f EXCEPT !.pc = "outer", !.i = f.i + 1, !.clusters = Append(f.clusters, f.cluster)],
           processed>>
    ELSE IF f.j \in processed THEN <<[f EXCEPT !.j = f.j + 1], processed>>
    ELSE Compared(f, processed,
                  calculate_similarity(list[f.i + 1], list[f.j + 1], "combined").val, thr)

ClusterStep(list, thr, f, processed) ==
    IF f.pc = "outer" THEN OuterStep(list, f, processed)
    ELSE InnerStep(list, thr, f, processed)

\* the loops run to the end: `return clusters`
RECURSIVE ClusterFrom(_, _, _, _)
ClusterNext(list, thr, fp) == ClusterFrom(list, thr, fp[1], fp[2])

ClusterFrom(list, thr, f, processed) ==
    IF f.pc = "done" THEN f.clusters
    ELSE ClusterNext(list, thr, ClusterStep(list, thr, f, processed))

text_clustering(list, thr) == ClusterFrom(list, thr, StartFrame, {})

\* ------------------------------------------------------------------------
\* extract_keywords.  A character outside ASCII is written as its code
\* point.
\* ------------------------------------------------------------------------
stop_words ==
    {<<"U+7684">>, <<"U+4E86">>, <<"U+5728">>, <<"U+662F">>, <<"U+6211">>, <<"U+6709">>,
     <<"U+548C">>, <<"U+5C31">>, <<"U+4E0D">>, <<"U+4EBA">>, <<"U+90FD">>, <<"U+4E00">>,
     <<"U+4E00", "U+4E2A">>, <<"U+4E0A">>, <<"U+4E5F">>, <<"U+5F88">>, <<"U+5230">>,
     <<"U+8BF4">>, <<"U+8981">>, <<"U+53BB">>, <<"U+4F60">>, <<"U+4F1A">>, <<"U+7740">>,
     <<"U+6CA1", "U+6709">>, <<"U+770B">>, <<"U+597D">>, <<"U+81EA", "U+5DF1">>, <<"U+8FD9">>}

\* `token not in stop_words and len(token) > 1`
IsContent(token) == token \notin stop_words /\ Len(token) > 1

\* the keys of Counter(filtered_tokens): the different tokens, in the order
\* of their first occurrence
KeepFirst(keys, token) == IF token \in ToSet(keys) THEN keys ELSE Append(keys, token)

RECURSIVE Keys(_)
Keys(tokens) ==
    IF tokens = <<>> THEN <<>>
    ELSE KeepFirst(Keys(SubSeq(tokens, 1, Len(tokens) - 1)), tokens[Len(tokens)])

\* Counter.items(): <<word, freq>> for every key
ItemsOf(keys, tokens) == [k \in 1..Len(keys) |-> <<keys[k], Count(tokens, keys[k])>>]

\* sorted(items, key=freq, reverse=True): descending and stable
\* (BeforeEqualCount: an item put in front of the items of equal count)
RECURSIVE BeforeEqualCount(_, _)
BeforeEqualCount(sorted, e) ==
    IF sorted = <<>> THEN <<e>>
    ELSE IF sorted[1][2] > e[2] THEN <<sorted[1]>> \o BeforeEqualCount(Tail(sorted), e)
    ELSE <<e>> \o sorted

RECURSIVE InsertByCount(_, _)
InsertByCount(sorted, e) ==
    IF sorted = <<>> THEN <<e>>
    ELSE IF sorted[1][2] >= e[2] THEN <<sorted[1]>> \o InsertByCount(Tail(sorted), e)
    ELSE <<e>> \o sorted

RECURSIVE SortedByCount(_)
SortedByCount(items) ==
    IF items = <<>> THEN items
    ELSE InsertByCount(SortedByCount(SubSeq(items, 1, Len(items) - 1)), items[Len(items)])

\* heapq.nlargest(n, items, key=freq) for an int n: nothing for n <= 0
\* (Whole: the ranking not cut)
Whole(ranked, n) == ranked

Largest(ranked, n) ==
    IF n <= 0 THEN <<>> ELSE SubSeq(ranked, 1, IF n < Len(ranked) THEN n ELSE Len(ranked))

\* Counter.most_common(n): the whole ranking for n = None, the n largest
\* for an int, and a TypeError for an n that does not compare with an int.
\* heapq.nlargest takes the maximum when n == 1, which 1.0 satisfies, and
\* slices or counts with n otherwise, a TypeError for a float.
MostCommonOf(ranked, n) ==
    CASE n.kind = "NoneType" -> Ok(ranked)
      [] n.kind = "int"      -> Ok(Largest(ranked, n.s[1]))
      [] n.kind = "float"    -> IF n.s = F1 THEN Ok(Largest(ranked, 1)) ELSE Raised
      [] OTHER               -> Raised

most_common(items, n) == MostCommonOf(SortedByCount(items), n)

\* [word for word, freq in ...]
WordsOf(r) == IF r.exc THEN r ELSE Ok([k \in 1..Len(r.val) |-> r.val[k][1]])

KeywordsOfFiltered(filtered_tokens, n) ==
    WordsOf(most_common(ItemsOf(Keys(filtered_tokens), filtered_tokens), n))

\* the body of the try block; tokens is what tokenize_text did
KeywordsOfTokens(tokens, n) ==
    IF tokens.exc THEN Raised ELSE KeywordsOfFiltered(SelectSeq(tokens.val, IsContent), n)

ExtractBody(t, n) == KeywordsOfTokens(tokenize_text(t), n)

\* `except Exception: return []`
\* (Propagated: the function without its except clause)
Propagated(r) == r

Handled(r) == IF r.exc THEN Ok(<<>>) ELSE r

CaughtList(r) == Handled(r).val

extract_keywords(t, n) == CaughtList(ExtractBody(t, n))

\* ------------------------------------------------------------------------
\* The list functions on arguments of any kind
\* ------------------------------------------------------------------------
PyFloat(f) == [kind |-> "float", s |-> f]

\* enumerate(v): the elements of a list, the characters of a str, and a
\* TypeError for a value that is not iterable
Iterated(v) ==
    CASE v.kind = "list" -> Ok(v.s)
      [] v.kind = "str"  -> Ok([k \in 1..Len(v.s) |-> PyStr(<<v.s[k]>>)])
      [] OTHER           -> Raised

\* `similarity >= threshold` is a TypeError unless threshold is a number
Comparable(thr) == thr.kind = "float"

\* `similar_texts[:max_results]` is a TypeError unless max_results is an
\* int or None, and [:None] is the whole list
Sliceable(max) == max.kind \in {"int", "NoneType"}

SliceEnd(max, n) == IF max.kind = "int" THEN max.s[1] ELSE n

\* the try block of find_similar_texts; items is what enumerate did
FindOver(target, items, thr, max) ==
    IF items.exc THEN Raised
    ELSE IF items.val # <<>> /\ ~Comparable(thr) THEN Raised
    ELSE IF ~Sliceable(max) THEN Raised
    ELSE Ok(find_similar_texts(target, items.val, thr.s, SliceEnd(max, Len(items.val))))

FindBody(target, list, thr, max) == FindOver(target, Iterated(list), thr, max)

\* the try block of text_clustering: the first comparison is made when
\* there are two texts
ClusterOver(items, thr) ==
    IF items.exc THEN Raised
    ELSE IF Len(items.val) >= 2 /\ ~Comparable(thr) THEN Raised
    ELSE Ok(text_clustering(items.val, thr.s))

ClusterBody(list, thr) == ClusterOver(Iterated(list), thr)

\* ------------------------------------------------------------------------
\* Calls running in several threads.  A thread switch can happen between
\* any two iterations of a loop; the names a call assigns are its locals.
\* ------------------------------------------------------------------------

\* `processed = set()`: where the call of thread t keeps its set
\* (SharedByAll: one set at module level, used by every call)
SharedByAll(t) == 1

OwnLocals(t) == t

\* the locals of find_similar_texts between two iterations of its loop
FindStart == [pc |-> "loop", i |-> 0, similar_texts |-> <<>>]

\* one iteration of `for i, text in enumerate(text_list)`, and after the
\* last one the sort and the slice of the list the call built
FindStep(target, list, thr, max, f) ==
    IF f.i < Len(list)
    THEN [f EXCEPT !.i = f.i + 1,
                   !.similar_texts = f.similar_texts \o
                       AppendIfSimilar(f.i, list[f.i + 1],
                           calculate_similarity(target, list[f.i + 1], "combined").val, thr)]
    ELSE [f EXCEPT !.pc = "done",
                   !.similar_texts = slice_to(sort_by_similarity(f.similar_texts), max)]

\* a call without a loop over its arguments, before and after it ran
CallStart == [pc |-> "call", result |-> <<>>]

Returned(v) == [pc |-> "done", result |-> v]

\* ------------------------------------------------------------------------
\* AIService._find_similar_bugs_internal.  A row of the bugs table is
\* [id, project_id, title, description]: title is a str, description a str
\* or None (the column is nullable); created_at is set by its column
\* default, so created_at.isoformat() does not raise.
\* ------------------------------------------------------------------------

\* the nearest integer to x * 1000, ties to even, from the exact value of x
InThousandths(n, sh) ==
    IF sh <= 0 THEN BigShl(n, -sh)
    ELSE RoundedUp(BigShr(n, sh), BigCmp(BigLowBits(n, sh), BigShl(<<1>>, sh - 1)), FALSE)

Thousandths(x) == IF x = FZero THEN <<>> ELSE InThousandths(BigMulSmall(x[1], 1000), -x[2])

\* round(x, 3): the float nearest to the decimal of three digits nearest
\* to x
round3(x) == FDiv(Round(Thousandths(x), 0, FALSE), FromInt(1000))

\* Bug.query.filter(Bug.project_id == bug.project_id, Bug.id != bug.id).all(),
\* the rows in the order of the table
\* (AnyBug: the query without its filter)
AnyBug(rows, b) == rows

OtherBugs(rows, b) ==
    LET Wanted(r) == r.project_id = b.project_id /\ r.id # b.id
    IN  SelectSeq(rows, Wanted)

\* title_similarity * 0.6 + desc_similarity * 0.4
W06 == Decimal(6, 10)

Overall(title_similarity, desc_similarity) ==
    FAdd(FMul(title_similarity, W06), FMul(desc_similarity, W04))

overall_similarity(b, other_bug) ==
    Overall(calculate_similarity(b.title, other_bug.title, "combined").val,
            calculate_similarity(b.description, other_bug.description, "combined").val)

\* `if overall_similarity >= similarity_threshold: similar_bugs.append({...})`
AppendIfOverall(other_bug, overall, thr) ==
    IF FGe(overall, thr)
    THEN <<[bug_id |-> other_bug.id, similarity |-> round3(overall)]>>
    ELSE <<>>

RECURSIVE SimilarBugsFrom(_, _, _, _)
SimilarBugsFrom(b, other_bugs, thr, i) ==
    IF i > Len(other_bugs) THEN <<>>
    ELSE AppendIfOverall(other_bugs[i], overall_similarity(b, other_bugs[i]), thr)
             \o SimilarBugsFrom(b, other_bugs, thr, i + 1)

\* the sort on the rounded similarity and the slice; nothing in the try
\* block raises on rows of the table
find_similar_bugs_internal(rows, b, thr, max) ==
    slice_to(sort_by_similarity(SimilarBugsFrom(b, OtherBugs(rows, b), thr, 1)), max)

\* ------------------------------------------------------------------------
\* The Celery task ai_find_similar_bugs
\* ------------------------------------------------------------------------

\* the columns of AITask, BaseModel's with its own: none is task_id
AITaskColumns ==
    {"id", "created_at", "updated_at", "task_type", "status", "input_data", "output_data",
     "error_message", "project_id", "related_id", "related_type", "start_time", "end_time",
     "duration"}

\* the keywords of AITask(task_id=..., task_type=..., status=..., input_data=...)
AITaskKeywords == {"task_id", "task_type", "status", "input_data"}

\* the parameters of find_similar_texts, and the keywords the task passes
\* beside the two positional arguments
FindParameters == {"target_text", "text_list", "threshold", "max_results"}
FindKeywords == {"threshold", "top_k"}
TaskTopK == 10

\* the keys of an entry of the list find_similar_texts returns
EntryKeys == {"index", "text", "similarity"}

\* a call with keywords raises TypeError unless each is a parameter (for a
\* model class: an attribute of the class)
Accepts(parameters, given) == given \subseteq parameters

\* f"{title} {description}": None is written None
Formatted(v) == IF v.kind = "NoneType" THEN <<"N", "o", "n", "e">> ELSE v.s

BugText(r) == PyStr(Formatted(r.title) \o <<" ">> \o Formatted(r.description))

\* Bug.query.filter(Bug.id != bug_id).all()
ExceptBug(rows, bug_id) ==
    LET Wanted(r) == r.id # bug_id
    IN  SelectSeq(rows, Wanted)

\* Bug.query.get(bug_id): the rows of that id
BugsOfId(rows, bug_id) ==
    LET Wanted(r) == r.id = bug_id
    IN  SelectSeq(rows, Wanted)

\* what the try block leaves: whether it raised, whether the AITask row
\* was added before, and the result it returned
Failed(recorded) == [exc |-> TRUE, recorded |-> recorded, result |-> <<>>]

Completed(similar) ==
    [exc |-> FALSE, recorded |-> TRUE,
     result |-> [success |-> TRUE, similar_bugs |-> similar, total_found |-> Len(similar)]]

\* `for idx, similarity in similar_results`: an entry is unpacked into two
\* names, which raises ValueError unless it has two keys; then
\* bug_data[idx] with round(similarity, 3)
Unpacked(all_bugs, similar_results) ==
    IF similar_results # <<>> /\ Cardinality(EntryKeys) # 2 THEN Failed(TRUE)
    ELSE Completed([k \in 1..Len(similar_results) |->
                       [id |-> all_bugs[similar_results[k].index + 1].id,
                        similarity |-> round3(similar_results[k].similarity)]])

BugTexts(all_bugs) == [k \in 1..Len(all_bugs) |-> BugText(all_bugs[k])]

\* from AITask(...) to the end of the try block, for the bug b
TryBlock(rows, b, thr) ==
    IF ~Accepts(AITaskColumns, AITaskKeywords) THEN Failed(FALSE)
    ELSE IF ~Accepts(FindParameters, FindKeywords) THEN Failed(TRUE)
    ELSE Unpacked(ExceptBug(rows, b.id),
                  find_similar_texts(BugText(b), BugTexts(ExceptBug(rows, b.id)), thr,
                                     TaskTopK))

\* the except clause: AITask.query.filter_by(task_id=...) raises when the
\* class has no task_id, and the bare except around it passes
MarkedFailed(tasks) ==
    IF "task_id" \in AITaskColumns THEN [k \in 1..Len(tasks) |-> [status |-> "failed"]]
    ELSE tasks

MarkedCompleted(tasks) ==
    [k \in 1..Len(tasks) |-> IF k = Len(tasks) THEN [status |-> "completed"] ELSE tasks[k]]

\* db.session.add(ai_task) with status='running'
Recorded(tasks, recorded) == IF recorded THEN Append(tasks, [status |-> "running"]) ELSE tasks

\* ------------------------------------------------------------------------
\* The inputs of the model
\* ------------------------------------------------------------------------
MaxLen == 3

Alphabet == {"a", "b", " "}

RECURSIVE StringsUpTo(_)
StringsUpTo(n) ==
    IF n = 0 THEN {<<>>}
    ELSE LET shorter == StringsUpTo(n - 1)
         IN  shorter \cup {Append(s, c) : s \in {t \in shorter : Len(t) = n - 1}, c \in Alphabet}

\* two longer texts: three different words, and a repeated word with upper
\* case and punctuation
ThreeWords == <<"a", "a", " ", "a", "b", " ", "b", "a">>
AbAb == <<"A", "b", ",", " ", "a", "b", "!">>

Texts == {PyStr(s) : s \in StringsUpTo(MaxLen) \cup {ThreeWords, AbAb}}

\* the bug titles of the specification's scenario
CrashesOnLogin == <<"A", " ", "c", "r", "a", "s", "h", "e", "s", " ", "o", "n", " ", "l", "o", "g", "i", "n">>
CrashesOnLoginScreen == <<"A", " ", "c", "r", "a", "s", "h", "e", "s", " ", "o", "n", " ", "l", "o", "g", "i", "n", " ", "s", "c", "r", "e", "e", "n">>
IsSlow == <<"B", " ", "i", "s", " ", "s", "l", "o", "w">>

\* the calls made on each pair of inputs: the four methods, and a method
\* name the function does not support
CallPlan == Methods \o <<"hamming">>

\* the values passed where a text is expected
Values ==
    {PyNone, PyInt(0), PyInt(5), PyList(<<>>), PyList(<<"a", "b">>),
     PyStr(<<>>), PyStr(<<"a", "b">>), PyStr(<<"a", " ", "b">>), PyStr(<<"a", "b", " ", "a", "b">>)}

\* the arguments of find_similar_texts
MaxCandidates == 3
MaxResults == 2
DefaultMaxResults == 10

Targets == {PyStr(CrashesOnLogin), PyStr(IsSlow)}
Candidates == {PyStr(CrashesOnLogin), PyStr(CrashesOnLoginScreen), PyStr(IsSlow), PyStr(<<>>)}
Threshold08 == Decimal(8, 10)
Thresholds == {F0, Threshold08}

RECURSIVE ListsUpTo(_)
ListsUpTo(n) ==
    IF n = 0 THEN {<<>>}
    ELSE LET shorter == ListsUpTo(n - 1)
         IN  shorter \cup {Append(l, t) : l \in {k \in shorter : Len(k) = n - 1}, t \in Candidates}

NoService ==
    /\ bug_rows = <<>>
    /\ bug = PyNone
    /\ bug_threshold = F0
    /\ bug_max_results = 0
    /\ listed = TRUE
    /\ similar_bugs = <<>>

NoTask ==
    /\ ai_tasks = <<>>
    /\ task = [pc |-> "done", bug_id |-> 0, similarity_threshold |-> F0, state |-> "SUCCESS",
               raised |-> FALSE, result |-> <<>>]

\* the bugs table: up to MaxBugs rows with the ids 1, 2, ... of two
\* projects; the titles of the scenario, descriptions empty, None or a text
MaxBugs == 3
ServiceMaxResults == 10
Threshold07 == Decimal(7, 10)

BugFields ==
    {<<p, t, d>> : p \in {1, 2},
                   t \in {PyStr(CrashesOnLogin), PyStr(CrashesOnLoginScreen)},
                   d \in {PyNone, PyStr(<<>>), PyStr(IsSlow)}}

RowsOf(fields) ==
    [k \in 1..Len(fields) |->
        [id |-> k, project_id |-> fields[k][1], title |-> fields[k][2],
         description |-> fields[k][3]]]

BugTables == {RowsOf(fields) : fields \in UNION {[1..n -> BugFields] : n \in 0..MaxBugs}}

NoCalls ==
    /\ step = 0
    /\ scores = <<>>
    /\ swapped = <<>>

NoSearch ==
    /\ target_text = PyNone
    /\ text_list = <<>>
    /\ threshold = F0
    /\ max_results = 0
    /\ returned = FALSE
    /\ found = <<>>

NoClustering ==
    /\ texts = <<>>
    /\ similarity_threshold = F0
    /\ clustered = TRUE
    /\ clusters = <<>>

NoExtraction ==
    /\ keyword_text = PyNone
    /\ top_k = PyNone
    /\ extracted = TRUE
    /\ keywords = <<>>

\* the texts of extract_keywords: up to MaxWords words separated by one
\* space; the words are two words of lower-case letters, one with an
\* upper-case letter, a word of one letter and a stop word
MaxWords == 3
MaxTopK == 2

KeywordWords ==
    {<<"a", "b">>, <<"c", "d">>, <<"A", "b">>, <<"a">>, <<"U+6CA1", "U+6709">>}

RECURSIVE WordLists(_)
WordLists(n) ==
    IF n = 0 THEN {<<>>}
    ELSE LET shorter == WordLists(n - 1)
         IN  shorter \cup {Append(l, w) : l \in {k \in shorter : Len(k) = n - 1}, w \in KeywordWords}

RECURSIVE Joined(_)
Joined(words) ==
    IF words = <<>> THEN <<>>
    ELSE IF Len(words) = 1 THEN words[1]
    ELSE words[1] \o <<" ">> \o Joined(Tail(words))

KeywordTexts == {PyStr(Joined(l)) : l \in WordLists(MaxWords)}

IsAscii(t) == \A k \in 1..Len(t.s) : Len(t.s[k]) = 1

TopKs == {PyInt(n) : n \in -1..MaxTopK} \cup {PyNone}

NoDegraded ==
    /\ call = [fn |-> "none", args |-> <<>>]
    /\ answered = TRUE
    /\ outcome = Ok(<<>>)

\* the values passed to find_similar_texts, extract_keywords and
\* text_clustering: None, empty and non-text values in every position
AnyTargets == {PyNone, PyInt(5), PyStr(<<"a", "b">>)}
AnyLists ==
    {PyNone, PyInt(3), PyStr(<<"a", "b">>), PyList(<<>>),
     PyList(<<PyStr(<<"a", "b">>), PyNone, PyInt(5)>>)}
AnyThresholds == {PyNone, PyStr(<<"x", "y", "z">>), PyFloat(F0)}
AnyCounts ==
    {PyNone, PyStr(<<"x", "y", "z">>), PyFloat(F1), PyFloat(FromInt(2)), PyInt(-1), PyInt(1)}
AnyTexts ==
    {PyNone, PyInt(0), PyList(<<"a", "b">>), PyStr(<<>>),
     PyStr(<<"a", "b", " ", "a", "b", " ", "a">>)}

DegradedCalls ==
    {[fn |-> "find_similar_texts", args |-> <<t, l, thr, n>>] :
        t \in AnyTargets, l \in AnyLists, thr \in AnyThresholds, n \in AnyCounts}
    \cup {[fn |-> "extract_keywords", args |-> <<t, n>>] : t \in AnyTexts, n \in AnyCounts}
    \cup {[fn |-> "text_clustering", args |-> <<l, thr>>] : l \in AnyLists, thr \in AnyThresholds}

NoThreads ==
    /\ shared_texts = <<>>
    /\ threads = <<>>
    /\ locals = <<>>

\* the threads, the list they all receive and the other arguments
NumThreads == 2
TopTwo == PyInt(2)
ThreadTarget == PyStr(CrashesOnLogin)
SharedLists ==
    {<<PyStr(CrashesOnLogin), PyStr(IsSlow), PyStr(CrashesOnLoginScreen)>>,
     <<PyStr(CrashesOnLoginScreen), PyStr(CrashesOnLogin)>>}
ThreadCalls ==
    {[fn |-> "text_clustering", frame |-> StartFrame],
     [fn |-> "find_similar_texts", frame |-> FindStart],
     [fn |-> "calculate_similarity", frame |-> CallStart],
     [fn |-> "extract_keywords", frame |-> CallStart]}

\* the arguments of the three measures called on their own: empty, one
\* character, one word, the same words in another order, a repeated word,
\* upper case and punctuation
AbCd == <<"a", "b", " ", "c", "d">>
CdAb == <<"c", "d", " ", "a", "b">>
AbAbCd == <<"a", "b", " ", "a", "b", " ", "c", "d">>
MeasureTexts ==
    {PyStr(s) : s \in {<<>>, <<"a">>, <<"a", "b">>, <<"c", "d">>, AbCd, CdAb, AbAbCd,
                        ThreeWords, AbAb}}
Measures == <<"jaccard", "cosine", "levenshtein">>

\* a text as long as the ones difflib treats apart, and a short one
LongA == [i \in 1..AutojunkLen |-> "a"]
Xa == <<"x", "a">>
MeasurePairs ==
    (MeasureTexts \X MeasureTexts)
        \cup {<<PyStr(Xa), PyStr(LongA)>>, <<PyStr(LongA), PyStr(Xa)>>}

\* the thresholds of text_clustering: 0.0, 0.8 and one no score reaches
Threshold2 == FromInt(2)
Threshold01 == Decimal(1, 10)
ClusterThresholds == {F0, Threshold01, Threshold08, Threshold2}

\* calculate_similarity on every pair of texts
Init ==
    /\ text1 \in Texts
    /\ text2 \in Texts
    /\ jiebaFails = FALSE
    /\ NoCalls
    /\ NoSearch
    /\ NoClustering
    /\ NoExtraction
    /\ NoDegraded
    /\ NoThreads
    /\ NoService
    /\ NoTask

\* the three measures on every pair of texts, the segmenter working or not
InitMeasures ==
    /\ \E p \in MeasurePairs : text1 = p[1] /\ text2 = p[2]
    /\ jiebaFails \in BOOLEAN
    /\ NoCalls
    /\ NoSearch
    /\ NoClustering
    /\ NoExtraction
    /\ NoDegraded
    /\ NoThreads
    /\ NoService
    /\ NoTask

\* calculate_similarity on values of every kind, the segmenter working or not
InitValues ==
    /\ text1 \in Values
    /\ text2 \in Values
    /\ jiebaFails \in BOOLEAN
    /\ NoCalls
    /\ NoSearch
    /\ NoClustering
    /\ NoExtraction
    /\ NoDegraded
    /\ NoThreads
    /\ NoService
    /\ NoTask

\* find_similar_texts on every list of candidates
InitFind ==
    /\ text1 = PyNone
    /\ text2 = PyNone
    /\ jiebaFails = FALSE
    /\ NoCalls
    /\ target_text \in Targets
    /\ text_list \in ListsUpTo(MaxCandidates)
    /\ threshold \in Thresholds
    /\ max_results \in (-1..MaxResults) \cup {DefaultMaxResults}
    /\ returned = FALSE
    /\ found = <<>>
    /\ NoClustering
    /\ NoExtraction
    /\ NoDegraded
    /\ NoThreads
    /\ NoService
    /\ NoTask

\* text_clustering on every list of texts
InitCluster ==
    /\ text1 = PyNone
    /\ text2 = PyNone
    /\ jiebaFails = FALSE
    /\ NoCalls
    /\ NoSearch
    /\ texts \in ListsUpTo(MaxCandidates)
    /\ similarity_threshold \in ClusterThresholds
    /\ clustered = FALSE
    /\ clusters = <<>>
    /\ NoExtraction
    /\ NoDegraded
    /\ NoThreads
    /\ NoService
    /\ NoTask

\* extract_keywords on every text, the segmenter working or not (only on
\* ASCII text when it works: how it cuts other text is up to its dictionary)
InitKeywords ==
    /\ text1 = PyNone
    /\ text2 = PyNone
    /\ NoCalls
    /\ NoSearch
    /\ NoClustering
    /\ keyword_text \in KeywordTexts
    /\ jiebaFails \in {b \in BOOLEAN : b \/ IsAscii(keyword_text)}
    /\ top_k \in TopKs
    /\ extracted = FALSE
    /\ keywords = <<>>
    /\ NoDegraded
    /\ NoThreads
    /\ NoService
    /\ NoTask

\* the three list functions on values of any kind, the segmenter working
\* or not
InitDegraded ==
    /\ text1 = PyNone
    /\ text2 = PyNone
    /\ jiebaFails \in BOOLEAN
    /\ NoCalls
    /\ NoSearch
    /\ NoClustering
    /\ NoExtraction
    /\ call \in DegradedCalls
    /\ answered = FALSE
    /\ outcome = Ok(<<>>)
    /\ NoThreads
    /\ NoService
    /\ NoTask

\* NumThreads threads, each calling one of the functions, all on the same
\* list object
InitThreads ==
    /\ text1 = PyNone
    /\ text2 = PyNone
    /\ jiebaFails = FALSE
    /\ NoCalls
    /\ NoSearch
    /\ NoClustering
    /\ NoExtraction
    /\ NoDegraded
    /\ shared_texts \in SharedLists
    /\ threads \in [1..NumThreads -> ThreadCalls]
    /\ locals = [t \in 1..NumThreads |-> {}]
    /\ NoService
    /\ NoTask

\* _find_similar_bugs_internal for a bug of the table, with the default
\* threshold and with max_results negative, small or the default
InitService ==
    /\ text1 = PyNone
    /\ text2 = PyNone
    /\ jiebaFails = FALSE
    /\ NoCalls
    /\ NoSearch
    /\ NoClustering
    /\ NoExtraction
    /\ NoDegraded
    /\ NoThreads
    /\ bug_rows \in BugTables
    /\ bug \in ToSet(bug_rows)
    /\ bug_threshold = Threshold07
    /\ bug_max_results \in {-1, 1, ServiceMaxResults}
    /\ listed = FALSE
    /\ similar_bugs = <<>>
    /\ NoTask

\* ai_find_similar_bugs for the id of a bug of the table or of none
InitTask ==
    /\ text1 = PyNone
    /\ text2 = PyNone
    /\ jiebaFails = FALSE
    /\ NoCalls
    /\ NoSearch
    /\ NoClustering
    /\ NoExtraction
    /\ NoDegraded
    /\ NoThreads
    /\ bug_rows \in BugTables
    /\ bug = PyNone
    /\ bug_threshold = F0
    /\ bug_max_results = 0
    /\ listed = TRUE
    /\ similar_bugs = <<>>
    /\ ai_tasks = <<>>
    /\ \E id \in 1..(MaxBugs + 1), thr \in {Threshold07, Threshold08} :
          task = [pc |-> "start", bug_id |-> id, similarity_threshold |-> thr,
                  state |-> "PENDING", raised |-> FALSE, result |-> <<>>]

\* calculate_similarity(text1, text2, method) for the next method of the plan
Call ==
    /\ step < Len(CallPlan)
    /\ scores' = Append(scores, calculate_similarity(text1, text2, CallPlan[step + 1]))
    /\ step' = step + 1
    /\ UNCHANGED <<text1, text2, jiebaFails, swapped, search, clustering, extraction, degraded, concurrent, service, tasking>>

\* calculate_similarity(text2, text1, method): the same calls, arguments exchanged
CallSwapped ==
    /\ step >= Len(CallPlan)
    /\ step < 2 * Len(CallPlan)
    /\ swapped' = Append(swapped, calculate_similarity(text2, text1, CallPlan[step - Len(CallPlan) + 1]))
    /\ step' = step + 1
    /\ UNCHANGED <<text1, text2, jiebaFails, scores, search, clustering, extraction, degraded, concurrent, service, tasking>>

Next == Call \/ CallSwapped

\* jaccard_similarity, cosine_similarity and levenshtein_similarity called
\* on the texts as they are, one after the other
CallMeasure ==
    /\ step < Len(Measures)
    /\ scores' = Append(scores, Measured(text1, text2, Measures[step + 1]))
    /\ step' = step + 1
    /\ UNCHANGED <<text1, text2, jiebaFails, swapped, search, clustering, extraction, degraded, concurrent, service, tasking>>

NextMeasures == CallMeasure

FindSimilar ==
    /\ ~returned
    /\ target_text # PyNone
    /\ found' = find_similar_texts(target_text, text_list, threshold, max_results)
    /\ returned' = TRUE
    /\ UNCHANGED <<text1, text2, jiebaFails, step, scores, swapped,
                   target_text, text_list, threshold, max_results, clustering, extraction, degraded, concurrent, service, tasking>>

NextFind == FindSimilar

Cluster ==
    /\ ~clustered
    /\ clusters' = text_clustering(texts, similarity_threshold)
    /\ clustered' = TRUE
    /\ UNCHANGED <<text1, text2, jiebaFails, step, scores, swapped, search,
                   texts, similarity_threshold, extraction, degraded, concurrent, service, tasking>>

NextCluster == Cluster

Extract ==
    /\ ~extracted
    /\ keywords' = extract_keywords(keyword_text, top_k)
    /\ extracted' = TRUE
    /\ UNCHANGED <<text1, text2, jiebaFails, step, scores, swapped, search, clustering,
                   keyword_text, top_k, degraded, concurrent, service, tasking>>

NextKeywords == Extract

Unanswered(fn) == ~answered /\ call.fn = fn

Answer(r) ==
    /\ outcome' = r
    /\ answered' = TRUE
    /\ UNCHANGED <<text1, text2, jiebaFails, step, scores, swapped, search, clustering,
                   extraction, call, concurrent, service, tasking>>

CallFindSimilar ==
    /\ Unanswered("find_similar_texts")
    /\ Answer(Handled(FindBody(call.args[1], call.args[2], call.args[3], call.args[4])))

CallExtract ==
    /\ Unanswered("extract_keywords")
    /\ Answer(Handled(ExtractBody(call.args[1], call.args[2])))

CallCluster ==
    /\ Unanswered("text_clustering")
    /\ Answer(Handled(ClusterBody(call.args[1], call.args[2])))

NextDegraded == CallFindSimilar \/ CallExtract \/ CallCluster

Running(t, fn) == threads[t].fn = fn /\ threads[t].frame.pc # "done"

Private ==
    UNCHANGED <<text1, text2, jiebaFails, step, scores, swapped, search, clustering,
                extraction, degraded, shared_texts, service, tasking>>

\* the thread's call goes on with its own frame
Advance(t, f) ==
    /\ threads' = [threads EXCEPT ![t].frame = f]
    /\ UNCHANGED locals
    /\ Private

\* a step of text_clustering leaves a frame and a set `processed`
AdvanceCluster(t, fp) ==
    /\ threads' = [threads EXCEPT ![t].frame = fp[1]]
    /\ locals' = [locals EXCEPT ![OwnLocals(t)] = fp[2]]
    /\ Private

ClusterThread(t) ==
    /\ Running(t, "text_clustering")
    /\ AdvanceCluster(t, ClusterStep(shared_texts, Threshold08, threads[t].frame,
                                     locals[OwnLocals(t)]))

FindThread(t) ==
    /\ Running(t, "find_similar_texts")
    /\ Advance(t, FindStep(ThreadTarget, shared_texts, Threshold08, DefaultMaxResults,
                           threads[t].frame))

SimilarityThread(t) ==
    /\ Running(t, "calculate_similarity")
    /\ Advance(t, Returned(calculate_similarity(ThreadTarget, shared_texts[1], "combined").val))

KeywordsThread(t) ==
    /\ Running(t, "extract_keywords")
    /\ Advance(t, Returned(extract_keywords(shared_texts[1], TopTwo)))

NextThreads ==
    \E t \in 1..NumThreads :
        ClusterThread(t) \/ FindThread(t) \/ SimilarityThread(t) \/ KeywordsThread(t)

Others ==
    UNCHANGED <<text1, text2, jiebaFails, step, scores, swapped, search, clustering,
                extraction, degraded, concurrent>>

FindSimilarBugs ==
    /\ ~listed
    /\ listed' = TRUE
    /\ similar_bugs' = find_similar_bugs_internal(bug_rows, bug, bug_threshold, bug_max_results)
    /\ UNCHANGED <<bug_rows, bug, bug_threshold, bug_max_results, tasking>>
    /\ Others

NextService == FindSimilarBugs

\* bug = Bug.query.get(bug_id); `if not bug: raise ValueError`
GetBug ==
    /\ task.pc = "start"
    /\ task' = [task EXCEPT !.state = "PROGRESS",
                            !.pc = IF BugsOfId(bug_rows, task.bug_id) = <<>> THEN "except"
                                   ELSE "try"]
    /\ UNCHANGED <<ai_tasks, service>>
    /\ Others

\* the rest of the try block, which returns the result or raises
Ended(t, tasks, done) ==
    /\ ai_tasks' = IF done.exc THEN Recorded(tasks, done.recorded)
                   ELSE MarkedCompleted(Recorded(tasks, done.recorded))
    /\ task' = IF done.exc THEN [t EXCEPT !.pc = "except"]
               ELSE [t EXCEPT !.pc = "done", !.state = "SUCCESS", !.result = done.result]

FindForBug ==
    /\ task.pc = "try"
    /\ Ended(task, ai_tasks,
             TryBlock(bug_rows, BugsOfId(bug_rows, task.bug_id)[1], task.similarity_threshold))
    /\ UNCHANGED service
    /\ Others

\* the except clause: the AITask row marked failed if it is found, the
\* state FAILURE, and the exception raised again
TaskFailed ==
    /\ task.pc = "except"
    /\ ai_tasks' = MarkedFailed(ai_tasks)
    /\ task' = [task EXCEPT !.pc = "done", !.state = "FAILURE", !.raised = TRUE]
    /\ UNCHANGED service
    /\ Others

NextTask == GetBug \/ FindForBug \/ TaskFailed

NumMethods == Len(Methods)
Empty == PyStr(<<>>)

\* the calls made so far, as <<first argument, second argument, method, outcome>>
CallsMade ==
    {<<text1, text2, CallPlan[i], scores[i]>> : i \in 1..Len(scores)}
        \cup {<<text2, text1, CallPlan[i], swapped[i]>> : i \in 1..Len(swapped)}

vars == <<text1, text2, jiebaFails, step, scores, swapped, search, clustering, extraction, degraded, concurrent, service, tasking>>

Spec == Init /\ [][Next]_vars

SpecValues == InitValues /\ [][Next]_vars

SpecMeasures == InitMeasures /\ [][NextMeasures]_vars

SpecFind == InitFind /\ [][NextFind]_vars

SpecCluster == InitCluster /\ [][NextCluster]_vars

SpecKeywords == InitKeywords /\ [][NextKeywords]_vars

SpecDegraded == InitDegraded /\ [][NextDegraded]_vars

SpecThreads == InitThreads /\ [][NextThreads]_vars

SpecService == InitService /\ [][NextService]_vars

SpecTask == InitTask /\ [][NextTask]_vars
\* ------------------------------------------------------------------------
\* Properties of calculate_similarity
\* ------------------------------------------------------------------------

\* C1: for every pair of texts and each of the four methods the score
\* returned by calculate_similarity lies in [0.0, 1.0].
C1_ScoreInUnitInterval ==
    \A c \in CallsMade :
        c[3] \in ToSet(Methods) => ~c[4].exc /\ FLe(F0, c[4].val) /\ FLe(c[4].val, F1)

\* C2: for every text a, calculate_similarity(a, a, 'combined') == 1.0.
C2_IdentityScoresOne ==
    \A c \in CallsMade :
        c[1] = c[2] /\ c[3] = "combined" => c[4] = Ok(F1)

\* C3: calculate_similarity(a, b, 'levenshtein') equals
\* calculate_similarity(b, a, 'levenshtein').
C3_LevenshteinSymmetric ==
    \A i \in 1..Len(swapped) :
        CallPlan[i] = "levenshtein" => scores[i] = swapped[i]

\* C4: for the methods jaccard and cosine, calculate_similarity(a, b, m)
\* equals calculate_similarity(b, a, m).
C4_TokenMeasuresSymmetric ==
    \A i \in 1..Len(swapped) :
        CallPlan[i] \in {"jaccard", "cosine"} => scores[i] = swapped[i]

\* C4 witness: two different texts sharing some but not all tokens were
\* scored in both orders.
C4_Witness ==
    /\ text1 # text2
    /\ Len(swapped) >= 2
    /\ \A i \in 1..2 : scores[i].val \notin {F0, F1}

\* C5: calculate_similarity("", "", m) == 1.0 for each of the four methods.
C5_EmptyPairScoresOne ==
    \A c \in CallsMade :
        c[1] = Empty /\ c[2] = Empty /\ c[3] \in ToSet(Methods) => c[4] = Ok(F1)

\* C6: when exactly one of the two texts is empty, calculate_similarity
\* returns 0.0 for every method, whichever argument is the empty one.
C6_OneEmptyScoresZero ==
    \A c \in CallsMade :
        (c[1] = Empty) # (c[2] = Empty) /\ c[3] \in ToSet(Methods) => c[4] = Ok(F0)

\* C6 witness: all four methods were called in both orders on an empty text
\* and a text of one word.
C6_Witness ==
    /\ text1 = Empty
    /\ text2 = PyStr(<<"a", "b">>)
    /\ Len(swapped) >= NumMethods

\* C8: for two non-empty texts the combined score is
\* jaccard * 0.3 + cosine * 0.4 + levenshtein * 0.3 of the scores the three
\* methods return for the same pair.
ThreeTenths == Decimal(3, 10)
FourTenths == Decimal(4, 10)

C8_CombinedIsWeightedSum ==
    Len(scores) >= NumMethods /\ text1 # Empty /\ text2 # Empty =>
        scores[4].val = FAdd(FAdd(FMul(scores[1].val, ThreeTenths),
                                  FMul(scores[2].val, FourTenths)),
                             FMul(scores[3].val, ThreeTenths))

\* C8 witness: a combined score of three different, non-trivial measures.
C8_Witness ==
    /\ Len(scores) >= NumMethods
    /\ text1 # Empty /\ text2 # Empty
    /\ Cardinality({scores[1].val, scores[2].val, scores[3].val, F0, F1}) = 5
\* C7: calculate_similarity never propagates an exception, and for None or
\* non-string values, an unsupported method name or a failing segmenter it
\* returns 0.0.
Degraded(c) ==
    c[1].kind # "str" \/ c[2].kind # "str" \/ c[3] \notin ToSet(Methods) \/ jiebaFails

C9_AtMostMaxResults == returned => Len(found) <= max_results

\* C9 as amended: at most max_results entries for max_results >= 0; for
\* max_results < 0, of the n candidates meeting the threshold the last
\* -max_results are dropped, which leaves n + max_results entries or none.
C9_AtMostMaxResultsNonNegative ==
    returned =>
        IF max_results >= 0 THEN Len(found) <= max_results
        ELSE LET n == Len(SimilarFrom(target_text, text_list, threshold, 1))
             IN  Len(found) = (IF n + max_results > 0 THEN n + max_results ELSE 0)

\* C9 witness: more candidates met the threshold than max_results allows.
C9_Witness ==
    /\ returned
    /\ max_results >= 1
    /\ Len(found) = max_results
    /\ Len(SimilarFrom(target_text, text_list, threshold, 1)) > max_results

\* C10: the returned entries are in non-increasing order of similarity.
C10_SortedDescending ==
    returned =>
        \A k \in 1..(Len(found) - 1) : FGe(found[k].similarity, found[k + 1].similarity)

\* C10 witness: a later candidate with a higher score was moved ahead of
\* an earlier one.
C10_Witness ==
    /\ returned
    /\ Len(found) >= 2
    /\ found[1].index > found[2].index
    /\ found[1].similarity # found[2].similarity

\* the combined similarity of the target and each candidate, by position
CandidateScores ==
    [i \in 1..Len(text_list) |-> calculate_similarity(target_text, text_list[i], "combined").val]

\* the positions of the candidates meeting the threshold
Meeting == {i \in 1..Len(text_list) : FGe(CandidateScores[i], threshold)}

ReturnedIndices == {found[k].index : k \in 1..Len(found)}

\* every returned entry is a candidate with its own score, and that score
\* meets the threshold; no index is returned twice; nothing is returned
\* for an empty list
EntriesAreCandidates ==
    /\ \A k \in 1..Len(found) :
          /\ found[k].index \in 0..(Len(text_list) - 1)
          /\ found[k].text = text_list[found[k].index + 1]
          /\ found[k].similarity = CandidateScores[found[k].index + 1]
          /\ FGe(found[k].similarity, threshold)
    /\ Cardinality(ReturnedIndices) = Len(found)
    /\ (text_list = <<>> => found = <<>>)

\* the candidates meeting the threshold that were not returned
Omitted == {i \in Meeting : i - 1 \notin ReturnedIndices}

\* C11: find_similar_texts returns exactly a top-K selection of the
\* candidates meeting the threshold: every entry is a candidate of the list
\* with its combined score, which is >= threshold; each index at most once;
\* a candidate meeting the threshold is omitted only when max_results
\* entries with scores >= its score are returned; an empty list gives an
\* empty result.
C11_TopKSelection ==
    returned =>
        /\ EntriesAreCandidates
        /\ \A i \in Omitted :
              /\ Len(found) = max_results
              /\ \A k \in 1..Len(found) : FGe(found[k].similarity, CandidateScores[i])

\* C11 as amended: the same for max_results >= 0; for max_results < 0 the
\* omitted candidates are the last -max_results of the ranking, so the
\* result has max(n + max_results, 0) of the n candidates meeting the
\* threshold, each with a score >= that of every omitted one.
C11_TopKSelectionNonNegative ==
    returned =>
        /\ EntriesAreCandidates
        /\ \A i \in Omitted :
              \A k \in 1..Len(found) : FGe(found[k].similarity, CandidateScores[i])
        /\ IF max_results >= 0
           THEN Omitted # {} => Len(found) = max_results
           ELSE Len(found) = (IF Cardinality(Meeting) + max_results > 0
                              THEN Cardinality(Meeting) + max_results ELSE 0)

\* C11 witness: a candidate scoring exactly the threshold was returned and
\* another candidate meeting the threshold was cut off by max_results.
C11_Witness ==
    /\ returned
    /\ max_results >= 1
    /\ Omitted # {}
    /\ \E k \in 1..Len(found) : found[k].similarity = threshold

\* C12: entries of equal similarity are in ascending order of their index
\* in the candidate list, and of a group of equal scores cut by the
\* truncation the lower indices are the ones kept.
C12_TiesInCandidateOrder ==
    returned =>
        /\ \A k \in 1..(Len(found) - 1) :
              found[k].similarity = found[k + 1].similarity => found[k].index < found[k + 1].index
        /\ \A i \in Omitted : \A k \in 1..Len(found) :
              found[k].similarity = CandidateScores[i] => found[k].index < i - 1

\* C12 witness: of three candidates of equal score two were returned.
C12_Witness ==
    /\ returned
    /\ Len(found) = 2
    /\ found[1].similarity = found[2].similarity
    /\ \E i \in Omitted : CandidateScores[i] = found[1].similarity

\* the scenario of the specification
IsScenario ==
    /\ target_text = PyStr(CrashesOnLogin)
    /\ text_list = <<PyStr(CrashesOnLogin), PyStr(CrashesOnLoginScreen), PyStr(IsSlow)>>
    /\ threshold = Threshold08
    /\ max_results = DefaultMaxResults

\* C19: with target "A crashes on login", candidates ["A crashes on login",
\* "A crashes on login screen", "B is slow"], threshold 0.8 and the default
\* max_results, the result is the entries of indices 0 and 1 in that order,
\* index 0 with score 1.0, and index 2 is not returned.
C19_Scenario ==
    returned /\ IsScenario =>
        /\ Len(found) = 2
        /\ found[1].index = 0 /\ found[1].similarity = F1
        /\ found[2].index = 1

\* ------------------------------------------------------------------------
\* Properties of text_clustering
\* ------------------------------------------------------------------------
ClusterIndices == 0..(Len(texts) - 1)

\* how many times the index x occurs in the returned clusters
Occurrences(x) ==
    Cardinality({<<c, k>> \in (1..Len(clusters)) \X (1..Len(texts)) :
                    k <= Len(clusters[c]) /\ clusters[c][k] = x})

\* C13: text_clustering(texts, threshold) returns a partition of
\* range(len(texts)) for any non-empty texts and any threshold: every index
\* is in exactly one cluster, no index appears twice, no cluster is empty.
C13_ClustersPartition ==
    clustered /\ texts # <<>> =>
        /\ \A x \in ClusterIndices : Occurrences(x) = 1
        /\ \A c \in 1..Len(clusters) :
              /\ clusters[c] # <<>>
              /\ Len(clusters[c]) <= Len(texts)
              /\ \A k \in 1..Len(clusters[c]) : clusters[c][k] \in ClusterIndices

\* C13 witness: three texts came back as a cluster of two and a cluster of
\* one.
C13_Witness ==
    /\ clustered
    /\ Len(texts) = 3
    /\ Len(clusters) = 2
    /\ \E c \in 1..2 : Len(clusters[c]) = 2

\* C14: in every returned cluster the first element is the seed, the
\* smallest index of the cluster, and every other member j has
\* calculate_similarity(texts[seed], texts[j], 'combined') >= threshold.
C14_MembersSimilarToSeed ==
    clustered =>
        \A c \in 1..Len(clusters) : \A k \in 2..Len(clusters[c]) :
            /\ clusters[c][1] < clusters[c][k]
            /\ FGe(calculate_similarity(texts[clusters[c][1] + 1], texts[clusters[c][k] + 1],
                                         "combined").val,
                   similarity_threshold)

\* C14 witness: a cluster of three, under a threshold that some other pair
\* of candidates does not reach.
C14_Witness ==
    /\ clustered
    /\ similarity_threshold = Threshold08
    /\ \E c \in 1..Len(clusters) : Len(clusters[c]) = 3

\* ------------------------------------------------------------------------
\* Properties of extract_keywords
\* ------------------------------------------------------------------------

\* C15: extract_keywords("", k) == [] for any k, and for every text and
\* every k the returned list has length <= k.
C15_AtMostK ==
    extracted /\ top_k.kind = "int" =>
        /\ (keyword_text = Empty => keywords = <<>>)
        /\ Len(keywords) <= top_k.s[1]

\* C15 as amended: extract_keywords("", k) == [] for any k; for every text
\* and every k >= 0 the list has length <= k, and for k < 0 it is empty.
C15_AtMostKNonNegative ==
    extracted /\ top_k.kind = "int" =>
        /\ (keyword_text = Empty => keywords = <<>>)
        /\ Len(keywords) <= (IF top_k.s[1] >= 0 THEN top_k.s[1] ELSE 0)

\* the content tokens of the text, and how often and where first each occurs
ContentTokens == SelectSeq(tokenize_text(keyword_text).val, IsContent)

Frequency(w) == Count(ContentTokens, w)

FirstAt(w) == CHOOSE k \in 1..Len(ContentTokens) :
                  ContentTokens[k] = w /\ \A h \in 1..(k - 1) : ContentTokens[h] # w

\* w ranks before v: more frequent, or as frequent and first seen earlier
RanksBefore(w, v) ==
    Frequency(w) > Frequency(v) \/ (Frequency(w) = Frequency(v) /\ FirstAt(w) < FirstAt(v))

\* C15 witness: a text of three different keywords was cut to two.
C15_Witness ==
    /\ extracted
    /\ top_k = PyInt(2)
    /\ Len(keywords) = 2
    /\ Cardinality(ToSet(ContentTokens)) = 3

\* C16: extract_keywords returns the K distinct non-stop-word tokens of
\* highest frequency in non-increasing frequency order; of tokens of equal
\* frequency the one first seen earlier comes first, also where the list
\* is cut.
C16_MostFrequentFirst ==
    extracted /\ top_k.kind = "int" =>
        /\ ToSet(keywords) \subseteq ToSet(ContentTokens)
        /\ Len(keywords) = Min({Max({top_k.s[1], 0}), Cardinality(ToSet(ContentTokens))})
        /\ \A k \in 1..(Len(keywords) - 1) : RanksBefore(keywords[k], keywords[k + 1])
        /\ \A w \in ToSet(ContentTokens) \ ToSet(keywords) :
              \A k \in 1..Len(keywords) : RanksBefore(keywords[k], w)

\* C16 witness: the later of two words is the more frequent one and was
\* returned alone.
C16_Witness ==
    /\ extracted
    /\ top_k = PyInt(1)
    /\ Len(ContentTokens) = 3
    /\ keywords = <<ContentTokens[2]>>
    /\ ContentTokens[1] # ContentTokens[2]

\* ------------------------------------------------------------------------
\* Texts without a common token
\* ------------------------------------------------------------------------

\* the token set of a text after normalization and tokenization
TokenSet(t) == ToSet(tokenize_text(preprocess_text(t)).val)

\* the characters of the normalized text
CharSet(t) == ToSet(preprocess_text(t).s)

\* C18: for two non-empty texts whose token sets have no token in common
\* the Jaccard and cosine measures are both 0.0, so the combined score is
\* at most 0.3 times the sequence ratio, and it is exactly 0.0 when the
\* normalized texts share no character either.
C18_DisjointTokensScoreZero ==
    /\ Len(scores) >= NumMethods
    /\ text1 # Empty /\ text2 # Empty
    /\ TokenSet(text1) \cap TokenSet(text2) = {}
    => /\ scores[1].val = F0
       /\ scores[2].val = F0
       /\ FLe(scores[4].val, FMul(scores[3].val, ThreeTenths))
       /\ (CharSet(text1) \cap CharSet(text2) = {} => scores[4].val = F0)

\* ------------------------------------------------------------------------
\* The list functions on degraded input
\* ------------------------------------------------------------------------

\* what the try block of the called function does on the arguments
BodyOfCall ==
    CASE call.fn = "find_similar_texts" ->
            FindBody(call.args[1], call.args[2], call.args[3], call.args[4])
      [] call.fn = "extract_keywords" -> ExtractBody(call.args[1], call.args[2])
      [] call.fn = "text_clustering"  -> ClusterBody(call.args[1], call.args[2])

\* C17: find_similar_texts, extract_keywords and text_clustering never
\* propagate an exception, whatever the arguments (None, empty or non-text
\* target, list elements, list, threshold, counts); where the input makes
\* the body fail, the safe default [] is returned instead.
C17_ListFunctionsNeverRaise ==
    answered /\ call.fn # "none" =>
        /\ ~outcome.exc
        /\ (BodyOfCall.exc => outcome.val = <<>>)

\* C17 witness: text_clustering was given three values and a threshold that
\* does not compare with a float, and returned.
C17_Witness ==
    /\ answered
    /\ call.fn = "text_clustering"
    /\ call.args = <<PyList(<<PyStr(<<"a", "b">>), PyNone, PyInt(5)>>), PyNone>>
    /\ BodyOfCall.exc

\* ------------------------------------------------------------------------
\* Concurrent calls
\* ------------------------------------------------------------------------
Finished(t) == threads[t].frame.pc = "done"

\* what the call of thread t returned
ResultOf(t) ==
    CASE threads[t].fn = "text_clustering"    -> threads[t].frame.clusters
      [] threads[t].fn = "find_similar_texts" -> threads[t].frame.similar_texts
      [] OTHER                                -> threads[t].frame.result

\* what the same call returns when no other call runs
Alone(t) ==
    CASE threads[t].fn = "text_clustering" -> text_clustering(shared_texts, Threshold08)
      [] threads[t].fn = "find_similar_texts" ->
            find_similar_texts(ThreadTarget, shared_texts, Threshold08, DefaultMaxResults)
      [] threads[t].fn = "calculate_similarity" ->
            calculate_similarity(ThreadTarget, shared_texts[1], "combined").val
      [] threads[t].fn = "extract_keywords" -> extract_keywords(shared_texts[1], TopTwo)

\* C20: calls of calculate_similarity, find_similar_texts, extract_keywords
\* and text_clustering running in several threads share no mutable state:
\* under every interleaving of their steps each call returns what it returns
\* when run alone, and no step changes the list the calls were given.
C20_SameResultUnderEveryInterleaving ==
    /\ [](\A t \in DOMAIN threads : Finished(t) => ResultOf(t) = Alone(t))
    /\ [][shared_texts' = shared_texts]_vars

\* C20 witness: a text_clustering call has returned its two clusters while
\* the text_clustering call of another thread, on the same list, is in the
\* middle of its inner loop.
C20_Witness ==
    /\ DOMAIN threads = 1..NumThreads
    /\ threads[1].fn = "text_clustering"
    /\ Finished(1)
    /\ ResultOf(1) = <<<<0, 2>>, <<1>>>>
    /\ threads[2].fn = "text_clustering"
    /\ threads[2].frame.pc = "inner"
    /\ threads[2].frame.j = 2

\* ------------------------------------------------------------------------
\* The three measures called on their own
\* ------------------------------------------------------------------------

\* the token list and the token set of an argument of a measure
TokensOf(t) == tokenize_text(t).val
TokenSetOf(t) == ToSet(TokensOf(t))

\* the measures already called
Measured1 == Len(scores) >= 1
Measured2 == Len(scores) >= 2
Measured3 == Len(scores) >= 3

\* |S1 n S2| / |S1 u S2| as a float
SharedOverAll(S1, S2) ==
    FDiv(FromInt(Cardinality(S1 \cap S2)), FromInt(Cardinality(S1 \cup S2)))

\* the value the Jaccard rule gives on two token sets
JaccardRule(S1, S2) ==
    IF S1 = {} /\ S2 = {} THEN F1
    ELSE IF S1 = {} \/ S2 = {} THEN F0
    ELSE SharedOverAll(S1, S2)

\* C21: jaccard_similarity over the token sets S1, S2 of its arguments is
\* 1.0 when both are empty, 0.0 when exactly one is empty and otherwise
\* |S1 n S2| / |S1 u S2|; it is 1.0 exactly when S1 = S2, and 0.0 exactly
\* when S1 and S2 are disjoint and not both empty.
C21_JaccardOverTokenSets ==
    Measured1 =>
        /\ scores[1] = Ok(JaccardRule(TokenSetOf(text1), TokenSetOf(text2)))
        /\ (scores[1].val = F1 <=> TokenSetOf(text1) = TokenSetOf(text2))
        /\ (scores[1].val = F0 <=>
                /\ TokenSetOf(text1) \cap TokenSetOf(text2) = {}
                /\ TokenSetOf(text1) \cup TokenSetOf(text2) # {})

\* C21 witness: the measure was taken on two different token sets with a
\* token in common, and on no other.
C21_Witness ==
    /\ Len(scores) = 1
    /\ TokenSetOf(text1) \cap TokenSetOf(text2) # {}
    /\ TokenSetOf(text1) # TokenSetOf(text2)

\* the places <<i, j>> where a and b have the same k characters
CommonAt(a, b, k) ==
    {p \in (1..(Len(a) - k + 1)) \X (1..(Len(b) - k + 1)) :
        SubSeq(a, p[1], p[1] + k - 1) = SubSeq(b, p[2], p[2] + k - 1)}

\* the length of the longest common substring
LongestCommon(a, b) == Max({k \in 0..Min({Len(a), Len(b)}) : CommonAt(a, b, k) # {}})

\* the total sizes of the matching blocks got by taking a longest common
\* substring and going on to its left and to its right, for every choice
\* among longest common substrings of the same length
RECURSIVE BlockTotals(_, _)
BlockTotals(a, b) ==
    LET k == LongestCommon(a, b)
    IN  IF k = 0 THEN {0}
        ELSE UNION {{k + l + r :
                        l \in BlockTotals(SubSeq(a, 1, p[1] - 1), SubSeq(b, 1, p[2] - 1)),
                        r \in BlockTotals(SubSeq(a, p[1] + k, Len(a)), SubSeq(b, p[2] + k, Len(b)))} :
                    p \in CommonAt(a, b, k)}

\* 2*M/T as a float
TwiceOver(M, T) == FDiv(FMul(FromInt(2), FromInt(M)), FromInt(T))

\* C22: levenshtein_similarity(s1, s2) is 1.0 when both strings are empty,
\* 0.0 when exactly one is empty, and otherwise 2*M/T with M the total size
\* of the matching blocks found by recursively taking the longest common
\* substring and T = len(s1) + len(s2); it compares characters, not tokens:
\* two strings that differ score below 1.0 whatever their tokens.
C22_SequenceRatioOverCharacters ==
    Measured3 =>
        /\ ~scores[3].exc
        /\ (text1.s = <<>> /\ text2.s = <<>> => scores[3].val = F1)
        /\ ((text1.s = <<>>) # (text2.s = <<>>) => scores[3].val = F0)
        /\ (text1.s # <<>> /\ text2.s # <<>> =>
                \E M \in BlockTotals(text1.s, text2.s) :
                    scores[3].val = TwiceOver(M, Len(text1.s) + Len(text2.s)))
        /\ (text1.s # text2.s => scores[3].val # F1)

\* the orders in which the vocabulary set can be iterated
OrderingsOf(S) ==
    {o \in [1..Cardinality(S) -> S] : \A i, j \in 1..Cardinality(S) : i # j => o[i] # o[j]}

\* the term-frequency list of tokens over the vocabulary in the order o
FrequenciesIn(o, tokens) == [i \in 1..Len(o) |-> Count(tokens, o[i])]

\* sum(a * b for a, b in zip(v, w)), added from left to right
RECURSIVE ZipDot(_, _)
ZipDot(v, w) ==
    IF v = <<>> THEN 0 ELSE ZipDot(SubSeq(v, 1, Len(v) - 1), SubSeq(w, 1, Len(w) - 1))
                            + v[Len(v)] * w[Len(w)]

\* dot(v1, v2) / (|v1| * |v2|) in floats
DotOverNorms(v1, v2) ==
    FDiv(FromInt(ZipDot(v1, v2)), FMul(PowHalf(ZipDot(v1, v1)), PowHalf(ZipDot(v2, v2))))

\* C23: cosine_similarity over the token lists of its arguments is 1.0 when
\* both are empty, 0.0 when exactly one is empty, and otherwise
\* dot(v1, v2) / (|v1| * |v2|) with v1, v2 the term-frequency vectors over
\* the union vocabulary, whatever the order the vocabulary is iterated in.
C23_CosineOverTermFrequencies ==
    Measured2 =>
        /\ ~scores[2].exc
        /\ (TokensOf(text1) = <<>> /\ TokensOf(text2) = <<>> => scores[2].val = F1)
        /\ ((TokensOf(text1) = <<>>) # (TokensOf(text2) = <<>>) => scores[2].val = F0)
        /\ (TokensOf(text1) # <<>> /\ TokensOf(text2) # <<>> =>
                \A o \in OrderingsOf(TokenSetOf(text1) \cup TokenSetOf(text2)) :
                    scores[2].val = DotOverNorms(FrequenciesIn(o, TokensOf(text1)),
                                                 FrequenciesIn(o, TokensOf(text2))))

\* C23 witness: the cosine was taken on two texts with a common token, one
\* of them repeating a token, over a vocabulary of two tokens or more.
C23_Witness ==
    /\ Measured2
    /\ TokenSetOf(text1) \cap TokenSetOf(text2) # {}
    /\ Cardinality(TokenSetOf(text1) \cup TokenSetOf(text2)) >= 2
    /\ Len(TokensOf(text1)) > Cardinality(TokenSetOf(text1))
    /\ scores[2].val \notin {F0, F1}

\* the seeds of the returned clusters, and the members of the cluster of a seed
SeedsOf == {clusters[c][1] : c \in 1..Len(clusters)}
MembersOf(i) == UNION {ToSet(clusters[c]) : c \in {d \in 1..Len(clusters) : clusters[d][1] = i}}

\* the seeds before j that texts[j] is similar to
SeedsNear(j) ==
    {i \in SeedsOf :
        /\ i < j
        /\ FGe(calculate_similarity(texts[i + 1], texts[j + 1], "combined").val,
               similarity_threshold)}

\* C24: text_clustering is greedy in input order: index j is a seed if and
\* only if no seed i < j has calculate_similarity(texts[i], texts[j]) >=
\* threshold, and otherwise j is in the cluster of the smallest such seed;
\* the clusters come in ascending order of their seeds and the members of a
\* cluster in ascending order.
C24_GreedyInInputOrder ==
    clustered =>
        /\ \A j \in ClusterIndices :
              /\ (j \in SeedsOf <=> SeedsNear(j) = {})
              /\ (SeedsNear(j) # {} => j \in MembersOf(Min(SeedsNear(j))))
        /\ \A c \in 1..(Len(clusters) - 1) : clusters[c][1] < clusters[c + 1][1]
        /\ \A c \in 1..Len(clusters) : \A k \in 1..(Len(clusters[c]) - 1) :
              clusters[c][k] < clusters[c][k + 1]

\* C24 witness: an index similar to two seeds, which are not similar to
\* each other, went to the first of them.
C24_Witness ==
    /\ clustered
    /\ Len(clusters) = 2
    /\ \E j \in ClusterIndices : Cardinality(SeedsNear(j)) = 2

\* a character a normalized token can hold: a lower-case ASCII letter, a
\* digit, or an ideograph (written as its code point)
InNormalized(c) == c \in LowerLetters \cup DigitChars \/ Len(c) > 1

Lowered(token) == [i \in 1..Len(token) |-> LowerChar(token[i])]

\* C25: every token returned by extract_keywords is a normalized token
\* (ASCII letters lower-cased, no character other than ideographs, ASCII
\* letters and digits), is longer than one character and is not a stop
\* word; two spellings of a word that differ only in letter case are one
\* keyword.
C25_KeywordsNormalized ==
    extracted =>
        /\ \A k \in 1..Len(keywords) :
              /\ \A i \in 1..Len(keywords[k]) : InNormalized(keywords[k][i])
              /\ Len(keywords[k]) > 1
              /\ keywords[k] \notin stop_words
        /\ \A k, l \in 1..Len(keywords) :
              k # l => Lowered(keywords[k]) # Lowered(keywords[l])

\* C26: every token in the list returned by tokenize_text is longer than
\* one character after stripping whitespace, on every path through the
\* function, the fallback taken when segmentation fails included.
C26_TokensLongerThanOne ==
    Measured1 =>
        \A t \in {text1, text2} : \A k \in 1..Len(TokensOf(t)) :
            Len(Strip(TokensOf(t)[k])) > 1

\* C27: tokenize_text never raises: whenever segmentation fails, whatever
\* the input that made it fail (a non-text input included), it returns the
\* whitespace-split fallback token list.
C27_TokenizeNeverRaises ==
    answered /\ call.fn = "extract_keywords" =>
        /\ ~tokenize_text(call.args[1]).exc
        /\ (jiebaFails /\ call.args[1].kind = "str" =>
                tokenize_text(call.args[1]).val = Split(call.args[1].s))

\* ------------------------------------------------------------------------
\* Properties of _find_similar_bugs_internal and of ai_find_similar_bugs
\* ------------------------------------------------------------------------

\* the other bugs of the project of the bug
SameProject == {r \in ToSet(bug_rows) : r.project_id = bug.project_id /\ r.id # bug.id}

ListedIds == {similar_bugs[k].bug_id : k \in 1..Len(similar_bugs)}

RowOfId(id) == CHOOSE r \in ToSet(bug_rows) : r.id = id

\* C28: for two distinct bugs of the same project with identical titles
\* and identical descriptions (empty descriptions included),
\* _find_similar_bugs_internal on one of them with the default threshold
\* 0.7 and max_results not smaller than the number of other bugs includes
\* the other one with similarity 1.0.
C28_TwinListedWithOne ==
    listed /\ bug_threshold = Threshold07 /\ bug_max_results >= Len(bug_rows) - 1 =>
        \A r \in SameProject :
            r.title = bug.title /\ r.description = bug.description =>
                \E k \in 1..Len(similar_bugs) :
                    similar_bugs[k] = [bug_id |-> r.id, similarity |-> F1]

\* what C29 says apart from the number of entries
ListedAreSimilarOthers ==
    /\ ListedIds \subseteq {r.id : r \in SameProject}
    /\ \A k \in 1..Len(similar_bugs) :
          FGe(FAdd(FMul(calculate_similarity(bug.title, RowOfId(similar_bugs[k].bug_id).title,
                                             "combined").val, Decimal(6, 10)),
                   FMul(calculate_similarity(bug.description,
                                             RowOfId(similar_bugs[k].bug_id).description,
                                             "combined").val, Decimal(4, 10))),
              bug_threshold)
    /\ \A k \in 1..(Len(similar_bugs) - 1) :
          FGe(similar_bugs[k].similarity, similar_bugs[k + 1].similarity)

\* C29 as stated: in any state of the table the result of
\* _find_similar_bugs_internal(bug, threshold, max_results) holds neither
\* the bug itself nor a bug of another project, every entry has
\* 0.6*sim(titles) + 0.4*sim(descriptions) >= threshold before rounding,
\* the entries are in non-increasing order of similarity and are at most
\* max_results.
C29_OnlySimilarOthers ==
    listed => ListedAreSimilarOthers /\ Len(similar_bugs) <= bug_max_results

\* C29 amended: the same, the number of entries being at most max_results
\* when max_results >= 0.
C29_OnlySimilarOthersNonNegative ==
    listed =>
        /\ ListedAreSimilarOthers
        /\ (bug_max_results >= 0 => Len(similar_bugs) <= bug_max_results)

\* C29 witness: a bug of another project has the title and the description
\* of the bug, and the one other bug of its own project was listed.
C29_Witness ==
    /\ listed
    /\ \E r \in ToSet(bug_rows) :
          /\ r.project_id # bug.project_id
          /\ r.title = bug.title
          /\ r.description = bug.description
          /\ ~Falsy(r.description)
    /\ Len(similar_bugs) = 1
    /\ similar_bugs[1].similarity # F1

\* C30: the task ai_find_similar_bugs run for an existing bug ends with its
\* AITask row in status 'completed' and returns a result with success True
\* whose similar_bugs are the other bugs find_similar_texts reports for the
\* text 'title description' of the bug at the given threshold; it ends
\* failed only when an operation fails, as when the bug does not exist.
C30_TaskCompletes ==
    task.pc = "done" /\ BugsOfId(bug_rows, task.bug_id) # <<>> =>
        /\ ~task.raised
        /\ task.state = "SUCCESS"
        /\ ai_tasks = <<[status |-> "completed"]>>
        /\ task.result # <<>>
====
